---- MODULE Spec2Model ----
(***************************************************************************)
(* The request cache and query coordination engine of binaryjs:            *)
(*   BinaryJSFetch      (src/src/core/BinaryJSFetch.ts)                    *)
(*   BinaryJSApi        (src/src/core/BinaryJSApi.ts)                      *)
(*   BinaryJSApiClient  (src/unnamed/part_007)                             *)
(*                                                                         *)
(* JavaScript runs one job at a time.  An action is one synchronous        *)
(* stretch of code: a call from its entry to its first suspension, the     *)
(* settling of a transport attempt together with the promise reaction      *)
(* registered on it, a timer callback, or the resumption of an awaiting    *)
(* caller.  Times are in milliseconds; the clock advances in steps of one  *)
(* second.  Names beginning with h are history variables or fields: they   *)
(* record what happened and no action's guard or effect on the program     *)
(* state reads them.                                                       *)
(*                                                                         *)
(* Spec has the callers of BinaryJSApiClient, SpecFetch the callers of     *)
(* BinaryJSFetch, and SpecAll both.  SpecClient adds the endpoint names    *)
(* and configs Spec leaves out, SpecFocus the window's focus event,        *)
(* SpecInterval the refetchInterval of query(), SpecRetry configurations   *)
(* that retry within the time covered; SpecInvalidate and SpecEvent vary   *)
(* the callers of invalidateQuery().  SpecStore has the callers of         *)
(* BinaryJSStore (src/unnamed/part_008), SpecTransform those of an         *)
(* endpoint with a response transform, SpecQueue those of prefetch() and   *)
(* flushQueue().  SpecLive is a specification with fairness: transport     *)
(* attempts end, timers fire, promise jobs run.                            *)
(***************************************************************************)
EXTENDS Integers, Sequences, FiniteSets, TLC

\* Bounds of the model.
MaxIssued == 2
MaxTime == 2
MaxFocus == 1
MaxRefetch == 2
MaxStoreOps == 3
MaxPrefetch == 2
MaxFlush == 2

VARIABLES
  now,              \* Date.now()
  served,           \* responses the remote server has produced so far
  cache,            \* BinaryJSFetch.cache : cacheKey -> {data, timestamp}
  pendingRequests,  \* BinaryJSFetch.pendingRequests : cacheKey -> promise
  runs,             \* the promises made by fetch(): executeRequest runs
  requestStates,    \* BinaryJSApi.requestStates : endpoint -> state
  queryCache,       \* BinaryJSApiClient.queryCache : queryKey -> QueryState
  tasks,            \* the suspended activations of query(), mutate() and fetch()
  issued,           \* the number of activations started so far
  returned,         \* the activation that returned in the last step, if one did
  hInvalidated,     \* query keys marked by invalidateQuery() and not queried since
  focus,            \* the focus listener: the keys its forEach has yet to visit
  timers,           \* the refetch-interval timers query() has set and not yet fired
  store,            \* BinaryJSStore: state, the Storage, and its activations
  prefetch          \* BinaryJSFetch.requestQueue and the flushQueue() in flight

vars == <<now, served, cache, pendingRequests, runs, requestStates,
          queryCache, tasks, issued, returned, hInvalidated, focus, timers,
          store, prefetch>>

----------------------------------------------------------------------------
(* Values                                                                  *)

\* JavaScript's undefined, as a request datum.
Undefined == "undefined"

\* The data the callers pass, each named by its JSON text.
RequestData == {Undefined, "1"}

\* if (x) ... for a request datum.
Truthy(data) == data # Undefined

\* JSON.stringify(data): the text of a number, undefined for undefined.
JSONStringify(data) == IF data = Undefined THEN Undefined ELSE data

\* An optional value is the empty sequence or a sequence of one element.
Falsy(opt) == IF opt = <<>> THEN TRUE ELSE opt[1] = 0

\* String.prototype.startsWith on sequences of characters.
StartsWith(s, prefix) ==
  /\ Len(prefix) <= Len(s)
  /\ SubSeq(s, 1, Len(prefix)) = prefix

Put(f, k, v) == [x \in DOMAIN f \cup {k} |-> IF x = k THEN v ELSE f[x]]

Remove(f, k) == [x \in DOMAIN f \ {k} |-> f[x]]

----------------------------------------------------------------------------
(* Configuration                                                           *)

\* ApiServiceConfig.endpoints: one endpoint with a cache and a retry block,
\* one with neither.
EndpointNames == {<<"u">>, <<"u", "s">>}

\* A third configured endpoint, with validators, and a name that is not a
\* key of ApiServiceConfig.endpoints.
ValidatedEndpoint == <<"v">>

UnconfiguredEndpoint == <<"x">>

\* A fourth configured endpoint, with a response transform.
TransformedEndpoint == <<"t">>

TransformStep == 10

\* { ...this.config.endpoints[endpoint], ...options } with no options: for a
\* name that is not configured the spread gives an object without
\* properties.
EndpointConfig(endpoint) ==
  CASE endpoint = <<"u">> ->
         [path |-> "/u", method |-> "GET",
          cache |-> <<[enabled |-> TRUE, ttl |-> <<2000>>]>>,
          retry |-> <<[attempts |-> 1, delay |-> 1000, backoff |-> "exponential"]>>,
          validation |-> <<>>, transform |-> <<>>]
    [] endpoint = <<"u", "s">> ->
         [path |-> "/us", method |-> "GET",
          cache |-> <<>>,
          retry |-> <<>>,
          validation |-> <<>>, transform |-> <<>>]
    [] endpoint = ValidatedEndpoint ->
         [path |-> "/v", method |-> "GET",
          cache |-> <<[enabled |-> TRUE, ttl |-> <<2000>>]>>,
          retry |-> <<[attempts |-> 1, delay |-> 0, backoff |-> "linear"]>>,
          validation |-> <<[request |-> "defined", response |-> "even"]>>,
          transform |-> <<>>]
    [] endpoint = TransformedEndpoint ->
         [path |-> "/t", method |-> "GET",
          cache |-> <<[enabled |-> TRUE, ttl |-> <<2000>>]>>,
          retry |-> <<[attempts |-> 1, delay |-> 1000, backoff |-> "linear"]>>,
          validation |-> <<>>,
          transform |-> <<[response |-> "wrap"]>>]
    [] OTHER ->
         [path |-> Undefined, method |-> Undefined,
          cache |-> <<>>,
          retry |-> <<>>,
          validation |-> <<>>, transform |-> <<>>]

\* The transform functions of the endpoints: one puts the response body
\* into an envelope, which a number ten higher stands for.
Transform(transform, value) ==
  CASE transform = "wrap" -> value + TransformStep

\* if (endpointConfig.transform?.response)
\*   response.data = endpointConfig.transform.response(response.data)
ApplyTransform(endpoint, data) ==
  IF EndpointConfig(endpoint).transform = <<>>
  THEN data
  ELSE Transform(EndpointConfig(endpoint).transform[1].response, data)

\* The validator functions of the endpoints: one accepts every datum but
\* undefined, one accepts the response bodies with an even number.
Validates(validator, value) ==
  CASE validator = "defined" -> value # Undefined
    [] validator = "even" -> value % 2 = 0

\* endpointConfig.validation?.request && !endpointConfig.validation.request(requestData)
RequestValid(endpoint, data) ==
  IF EndpointConfig(endpoint).validation = <<>>
  THEN TRUE
  ELSE Validates(EndpointConfig(endpoint).validation[1].request, data)

\* endpointConfig.validation?.response && !endpointConfig.validation.response(response.data)
ResponseValid(endpoint, data) ==
  IF EndpointConfig(endpoint).validation = <<>>
  THEN TRUE
  ELSE Validates(EndpointConfig(endpoint).validation[1].response, data)

\* BinaryJSFetch.defaultConfig.
DefaultTtl == 5000
DefaultRetryAttempts == 3
DefaultRetryDelay == 1000
DefaultTimeout == 30000

defaultConfig ==
  [cache |-> <<[enabled |-> TRUE, ttl |-> <<DefaultTtl>>]>>,
   retry |-> <<[attempts |-> DefaultRetryAttempts, delay |-> DefaultRetryDelay,
                backoff |-> "exponential"]>>,
   timeout |-> DefaultTimeout]

\* { ...this.defaultConfig, ...config }: a key of config wins, also when its
\* value is undefined.
MergeConfig(config) ==
  [k \in {"cache", "retry", "timeout"} |->
     IF k \in DOMAIN config THEN config[k] ELSE defaultConfig[k]]

\* The configurations callers of BinaryJSFetch.fetch() pass.
DirectConfigs ==
  { [cache |-> <<[enabled |-> FALSE, ttl |-> <<>>]>>,
     retry |-> <<[attempts |-> 3, delay |-> 0, backoff |-> "linear"]>>,
     timeout |-> 1000],
    [cache |-> <<[enabled |-> TRUE, ttl |-> <<>>]>>,
     retry |-> <<[attempts |-> 0, delay |-> 1000, backoff |-> "linear"]>>],
    [cache |-> <<[enabled |-> TRUE, ttl |-> <<1000>>]>>,
     retry |-> <<[attempts |-> 2, delay |-> 1000, backoff |-> "linear"]>>],
    [cache |-> <<[enabled |-> TRUE, ttl |-> <<0>>]>>],
    [timeout |-> 1000] }

\* Configurations whose retries fall within the time the model covers.
RetryConfigs ==
  { [cache |-> <<[enabled |-> FALSE, ttl |-> <<>>]>>,
     retry |-> <<[attempts |-> 3, delay |-> 500, backoff |-> "exponential"]>>,
     timeout |-> 1000],
    [cache |-> <<[enabled |-> FALSE, ttl |-> <<>>]>>,
     retry |-> <<[attempts |-> 2, delay |-> 500, backoff |-> "linear"]>>,
     timeout |-> 1000] }

\* BinaryJSApiClient.defaultQueryConfig.
DefaultDedupeTime == 1000

defaultQueryConfig == [enabled |-> TRUE, dedupeTime |-> DefaultDedupeTime]

\* { ...this.defaultQueryConfig, ...config } for the configs callers of
\* query() pass: none, and { enabled: false }.
QueryConfigs ==
  { defaultQueryConfig,
    [enabled |-> FALSE, dedupeTime |-> DefaultDedupeTime] }

\* The merged configs of callers of query() that pass a refetchInterval or
\* nothing.
IntervalQueryConfigs ==
  { defaultQueryConfig,
    [enabled |-> TRUE, dedupeTime |-> DefaultDedupeTime, refetchInterval |-> 1000],
    [enabled |-> TRUE, dedupeTime |-> DefaultDedupeTime, refetchInterval |-> 2000] }

\* The MutationConfig values callers of mutate() pass.
MutationConfigs ==
  { [optimisticUpdate |-> TRUE, rollbackOnError |-> FALSE,
     invalidateQueries |-> << <<"u">> >>],
    [optimisticUpdate |-> FALSE, rollbackOnError |-> TRUE,
     invalidateQueries |-> << <<"u", "s">> >>] }

NoMutationConfig ==
  [optimisticUpdate |-> FALSE, rollbackOnError |-> FALSE, invalidateQueries |-> <<>>]

\* A MutationConfig that only names the queries to invalidate.
PlainMutationConfig ==
  [optimisticUpdate |-> FALSE, rollbackOnError |-> FALSE,
   invalidateQueries |-> << <<"u">> >>]

\* The arguments callers of invalidateQuery() pass.
Prefixes == {<<"u">>, <<"u", "s">>, <<"u", ":">>}

\* Arguments of invalidateQuery() that reach into the serialized parameters
\* of a key.
ParameterPrefixes == {<<"u", ":", "1">>}

----------------------------------------------------------------------------
(* Keys                                                                    *)

\* `${endpoint}:${JSON.stringify(data)}`
QueryKey(endpoint, data) == endpoint \o <<":">> \o <<JSONStringify(data)>>

\* `${this.config.baseUrl}${endpointConfig.path}`
Url(endpoint) == <<"base", EndpointConfig(endpoint).path>>

\* The RequestInit BinaryJSApi.request() passes to fetch(); the headers are
\* the same for every endpoint here.
RequestOptions(endpoint, data) ==
  [method |-> EndpointConfig(endpoint).method,
   body |-> IF Truthy(data) THEN <<JSONStringify(data)>> ELSE <<>>]

\* `${url}:${JSON.stringify(options)}`
CacheKey(url, options) == <<url, options.method, options.body>>

\* The FetchConfig BinaryJSApi.request() passes to fetch().
ApiFetchConfig(endpoint) ==
  [cache |-> EndpointConfig(endpoint).cache,
   retry |-> EndpointConfig(endpoint).retry]

----------------------------------------------------------------------------
(* BinaryJSFetch                                                           *)

\* A promise returned by fetch() is named by a number; 0 names no run.
RunIds == 1..(MaxIssued + MaxRefetch)

\* Error values: what a transport attempt rejects with, what
\* calculateBackoff throws when config.retry is undefined, and the error
\* thrown after the retry loop.
TransportErrors == {"HttpError", "AbortError"}

NoResponse ==
  [data |-> 0, metadata |-> [timestamp |-> 0, cacheHit |-> FALSE, retryCount |-> 0]]

FetchResponseNoRetryCount(data, retryCount, endTime) ==
  [data |-> data,
   metadata |-> [timestamp |-> endTime, cacheHit |-> FALSE, retryCount |-> 0]]

\* The FetchResponse executeRequest builds from a response body.
FetchResponseOf(data, retryCount, endTime) ==
  [data |-> data,
   metadata |-> [timestamp |-> endTime, cacheHit |-> FALSE, retryCount |-> retryCount]]

\* The FetchResponse fetch() builds from a cache entry.
CachedResponseOf(cached) ==
  [data |-> cached.data,
   metadata |-> [timestamp |-> cached.timestamp, cacheHit |-> TRUE, retryCount |-> 0]]

\* mergedConfig.cache?.enabled
CacheEnabled(config) == config.cache # <<>> /\ config.cache[1].enabled

\* The test that guards the cache branch of fetch().
CacheValid(config, cacheKey) ==
  /\ CacheEnabled(config)
  /\ cacheKey \in DOMAIN cache
  /\ IF Falsy(config.cache[1].ttl)
     THEN TRUE
     ELSE now - cache[cacheKey].timestamp < config.cache[1].ttl[1]

calculateBackoffLinear(attempt, config) == config.retry[1].delay * attempt

\* delay * Math.pow(2, attempt - 1) or delay * attempt
calculateBackoff(attempt, config) ==
  IF config.retry[1].backoff = "exponential"
  THEN config.retry[1].delay * 2 ^ (attempt - 1)
  ELSE config.retry[1].delay * attempt

\* config.retry?.attempts || 0
AttemptsOrZero(config) == IF config.retry = <<>> THEN 0 ELSE config.retry[1].attempts

\* while (retryCount <= (config.retry?.attempts || 0))
LoopCondition(retryCount, config) == retryCount <= AttemptsOrZero(config)

LastAttemptOffByOne(retryCount, config) ==
  config.retry # <<>> /\ retryCount + 1 = config.retry[1].attempts

\* retryCount === config.retry?.attempts
LastAttempt(retryCount, config) ==
  config.retry # <<>> /\ retryCount = config.retry[1].attempts

FetchBranchNoJoin(cacheKey, config) ==
  IF CacheValid(config, cacheKey) THEN "hit" ELSE "new"

\* The way fetch() answers: from the cache, with the pending promise of the
\* key, or with a new executeRequest run.
FetchBranch(cacheKey, config) ==
  IF CacheValid(config, cacheKey) THEN "hit"
  ELSE IF cacheKey \in DOMAIN pendingRequests THEN "join"
  ELSE "new"

\* The time a timer set now fires at.  A timer that fires after the last
\* instant of the model never fires in it: all such timers are alike.
TimerAt(delay) ==
  IF now + delay > MaxTime * 1000 THEN MaxTime * 1000 + 1000 ELSE now + delay

FreeRun == CHOOSE r \in RunIds : r \notin DOMAIN runs

\* executeRequest up to its first await: the first transport attempt is out
\* and its abort timer is armed.  hRaw is the body the transport answers
\* with, hFetchErrors the number of times the run has called
\* notifyFetchError.
NewRun(cacheKey, config) ==
  [key |-> cacheKey, config |-> config, retryCount |-> 0, phase |-> "transport",
   timer |-> TimerAt(config.timeout), response |-> NoResponse, error |-> "null",
   hCalls |-> 1, hOutdated |-> FALSE, hWait |-> 0, hFailure |-> "null",
   hRaw |-> 0, hFetchErrors |-> 0]

\* The promise fetch() returns: 0 for a response built from the cache.
FetchSource(cacheKey, config) ==
  CASE FetchBranch(cacheKey, config) = "hit" -> 0
    [] FetchBranch(cacheKey, config) = "join" -> pendingRequests[cacheKey]
    [] OTHER -> FreeRun

RunsAfterFetch(cacheKey, config) ==
  IF FetchBranch(cacheKey, config) = "new"
  THEN Put(runs, FreeRun, NewRun(cacheKey, config))
  ELSE runs

PendingNotRegistered(cacheKey, config) == pendingRequests

\* this.pendingRequests.set(cacheKey, promise)
PendingAfterFetch(cacheKey, config) ==
  IF FetchBranch(cacheKey, config) = "new"
  THEN Put(pendingRequests, cacheKey, FreeRun)
  ELSE pendingRequests

HitAfterFetch(cacheKey, config) ==
  IF FetchBranch(cacheKey, config) = "hit"
  THEN CachedResponseOf(cache[cacheKey])
  ELSE NoResponse

\* A caller's await has a settled promise to resume from.
Settled(src) ==
  IF src = 0 THEN TRUE ELSE runs[src].phase \in {"resolved", "rejected"}

Ready(t) == Settled(tasks[t].src)

\* Promise jobs run before any timer or network callback.
MicrotasksPending == \E t \in DOMAIN tasks : Ready(t)

\* The .then() callback fetch() registers on a run.
CacheAfterSuccess(run, response) ==
  IF CacheEnabled(run.config)
  THEN Put(cache, run.key,
           [data |-> response.data, timestamp |-> response.metadata.timestamp])
  ELSE cache

PendingAfterSuccess(run) == Remove(pendingRequests, run.key)

\* A transport attempt answers: executeRequest returns, and the .then()
\* callback of fetch() stores the response and deletes the pending entry.
TransportSucceed(r) ==
  /\ r \in DOMAIN runs
  /\ runs[r].phase = "transport"
  /\ ~MicrotasksPending
  /\ LET response == FetchResponseOf(served + 1, runs[r].retryCount, now)
     IN /\ runs' = [runs EXCEPT ![r].phase = "resolved",
                                ![r].response = response,
                                ![r].timer = 0,
                                ![r].hRaw = response.data]
        /\ cache' = CacheAfterSuccess(runs[r], response)
        /\ pendingRequests' = PendingAfterSuccess(runs[r])
  /\ served' = served + 1
  /\ UNCHANGED <<now, requestStates, queryCache, tasks, issued, hInvalidated,
                 focus, timers, store, prefetch>>
  /\ returned' = <<>>

\* The catch block of executeRequest.
RunAfterFailureAbortEnds(run, error) ==
  IF LastAttempt(run.retryCount, run.config) \/ error = "AbortError"
  THEN [run EXCEPT !.phase = "rejected", !.error = error, !.timer = 0,
                   !.hFailure = error, !.hFetchErrors = run.hFetchErrors + 1]
  ELSE IF run.config.retry = <<>>
  THEN [run EXCEPT !.retryCount = run.retryCount + 1, !.phase = "rejected",
                   !.error = "TypeError", !.timer = 0, !.hFailure = error]
  ELSE [run EXCEPT !.retryCount = run.retryCount + 1, !.phase = "backoff",
                   !.timer = TimerAt(calculateBackoff(run.retryCount + 1, run.config)),
                   !.hWait = calculateBackoff(run.retryCount + 1, run.config),
                   !.hFailure = error]

\* The catch block of executeRequest.  hFailure is the error the most recent
\* failed attempt failed with, hWait the backoff the block has computed.
RunAfterFailure(run, error) ==
  IF LastAttempt(run.retryCount, run.config)
  THEN [run EXCEPT !.phase = "rejected", !.error = error, !.timer = 0,
                   !.hFailure = error, !.hFetchErrors = run.hFetchErrors + 1]
  ELSE IF run.config.retry = <<>>
  THEN [run EXCEPT !.retryCount = run.retryCount + 1, !.phase = "rejected",
                   !.error = "TypeError", !.timer = 0, !.hFailure = error]
  ELSE [run EXCEPT !.retryCount = run.retryCount + 1, !.phase = "backoff",
                   !.timer = TimerAt(calculateBackoff(run.retryCount + 1, run.config)),
                   !.hWait = calculateBackoff(run.retryCount + 1, run.config),
                   !.hFailure = error]

\* A transport attempt fails: the server answers with an error status, or
\* the abort timer of the attempt fires.
TransportFail(r, error) ==
  /\ r \in DOMAIN runs
  /\ runs[r].phase = "transport"
  /\ ~MicrotasksPending
  /\ IF error = "AbortError" THEN now >= runs[r].timer ELSE TRUE
  /\ runs' = [runs EXCEPT ![r] = RunAfterFailure(runs[r], error)]
  /\ UNCHANGED <<now, served, cache, pendingRequests, requestStates, queryCache,
                 tasks, issued, hInvalidated, focus, timers, store, prefetch>>
  /\ returned' = <<>>

\* The head of the retry loop after a backoff wait.
RunAfterBackoff(run) ==
  IF LoopCondition(run.retryCount, run.config)
  THEN [run EXCEPT !.phase = "transport", !.timer = TimerAt(run.config.timeout),
                   !.hCalls = run.hCalls + 1]
  ELSE [run EXCEPT !.phase = "rejected", !.error = "MaxRetriesExceeded", !.timer = 0]

\* The backoff timer of a run fires.
BackoffElapsed(r) ==
  /\ r \in DOMAIN runs
  /\ runs[r].phase = "backoff"
  /\ now >= runs[r].timer
  /\ ~MicrotasksPending
  /\ runs' = [runs EXCEPT ![r] = RunAfterBackoff(runs[r])]
  /\ UNCHANGED <<now, served, cache, pendingRequests, requestStates, queryCache,
                 tasks, issued, hInvalidated, focus, timers, store, prefetch>>
  /\ returned' = <<>>

\* clearCache()
ClearCache ==
  /\ cache' = <<>>
  /\ runs' = [r \in DOMAIN runs |->
                IF runs[r].phase \in {"transport", "backoff"}
                THEN [runs[r] EXCEPT !.hOutdated = TRUE]
                ELSE runs[r]]
  /\ UNCHANGED <<now, served, pendingRequests, requestStates, queryCache, tasks,
                 issued, hInvalidated, focus, timers, store, prefetch>>
  /\ returned' = <<>>

\* The clock advances by one second.
Tick ==
  /\ now < MaxTime * 1000
  /\ ~MicrotasksPending
  /\ now' = now + 1000
  /\ UNCHANGED <<served, cache, pendingRequests, runs, requestStates, queryCache,
                 tasks, issued, hInvalidated, focus, timers, store, prefetch>>
  /\ returned' = <<>>

\* The clock passes the last instant the model tells apart: every timer
\* that is set has come due.
TickLast ==
  /\ now = MaxTime * 1000
  /\ ~MicrotasksPending
  /\ now' = MaxTime * 1000 + 1000
  /\ UNCHANGED <<served, cache, pendingRequests, runs, requestStates, queryCache,
                 tasks, issued, hInvalidated, focus, timers, store, prefetch>>
  /\ returned' = <<>>

----------------------------------------------------------------------------
(* BinaryJSApi and BinaryJSApiClient                                       *)

\* { ...currentState, ...update }
Spread(current, update) ==
  [f \in DOMAIN current \cup DOMAIN update |->
     IF f \in DOMAIN update THEN update[f] ELSE current[f]]

\* The state updateRequestState starts from when the endpoint has none.  The
\* creation timestamp and the duration, which nothing reads, are left out of
\* this state and of the QueryState.
InitialRequestState ==
  [data |-> 0, loading |-> FALSE, error |-> "null",
   metadata |-> [cacheHit |-> FALSE, retryCount |-> 0]]

updateRequestState(endpoint, update) ==
  Put(requestStates, endpoint,
      Spread(IF endpoint \in DOMAIN requestStates
             THEN requestStates[endpoint] ELSE InitialRequestState,
             update))

\* The state updateQueryState starts from when the key has none.
InitialQueryState ==
  [data |-> 0, loading |-> FALSE, error |-> "null",
   metadata |-> [cacheHit |-> FALSE, retryCount |-> 0],
   isStale |-> TRUE, lastUpdated |-> 0, refetchCount |-> 0]

updateQueryState(qc, key, update) ==
  Put(qc, key,
      Spread(IF key \in DOMAIN qc THEN qc[key] ELSE InitialQueryState, update))

MarkStaleResets(qc, keys) ==
  [k \in DOMAIN qc |-> IF k \in keys THEN InitialQueryState ELSE qc[k]]

\* queryCache.forEach((state, key) => { if (match) updateQueryState(key,
\* { isStale: true }) })
MarkStale(qc, keys) ==
  [k \in DOMAIN qc |-> IF k \in keys THEN [qc[k] EXCEPT !.isStale = TRUE] ELSE qc[k]]

\* invalidateQueries.some((query) => key.startsWith(query))
MatchesAny(key, queries) ==
  \E i \in DOMAIN queries : StartsWith(key, queries[i])

Matching(qc, queries) == {k \in DOMAIN qc : MatchesAny(k, queries)}

NoOptimisticMark(qc, config) == qc

\* The optimistic step of mutate().
OptimisticMark(qc, config) ==
  IF config.optimisticUpdate
  THEN MarkStale(qc, Matching(qc, config.invalidateQueries))
  ELSE qc

NoSuccessMark(qc, config) == qc

\* The invalidation mutate() does after a successful request.
SuccessMark(qc, config) == MarkStale(qc, Matching(qc, config.invalidateQueries))

NoRollbackMark(qc, config) == qc

\* The catch block of mutate().
RollbackMark(qc, config) ==
  IF config.rollbackOnError
  THEN MarkStale(qc, Matching(qc, config.invalidateQueries))
  ELSE qc

NeverDeduped(queryKey, config) == FALSE

\* The dedupe test of query().
Deduped(queryKey, config) ==
  /\ queryKey \in DOMAIN queryCache
  /\ ~queryCache[queryKey].isStale
  /\ config.dedupeTime # 0
  /\ now - queryCache[queryKey].lastUpdated < config.dedupeTime

\* currentState?.refetchCount || 0
RefetchCountOrZero(queryKey) ==
  IF queryKey \in DOMAIN queryCache THEN queryCache[queryKey].refetchCount ELSE 0

ApiCacheKey(endpoint, data) == CacheKey(Url(endpoint), RequestOptions(endpoint, data))

ApiConfig(endpoint) == MergeConfig(ApiFetchConfig(endpoint))

\* The cached data a query() issued now is entitled to: the key's state is
\* fresh and holds the data of a cache entry younger than the endpoint's ttl.
hValidData(endpoint, data) ==
  LET key == ApiCacheKey(endpoint, data)
      queryKey == QueryKey(endpoint, data)
      config == ApiConfig(endpoint)
  IN IF /\ CacheValid(config, key)
        /\ ~Falsy(config.cache[1].ttl)
        /\ queryKey \in DOMAIN queryCache
        /\ ~queryCache[queryKey].isStale
        /\ queryCache[queryKey].error = "null"
        /\ queryCache[queryKey].data = cache[key].data
     THEN cache[key].data
     ELSE 0

\* What request() throws before it reaches fetch(): nothing, or the error
\* of the request validator.  A direct fetch() passes no validator.
RequestError(kind, endpoint, data) ==
  IF kind # "fetch" /\ ~RequestValid(endpoint, data)
  THEN "RequestValidation"
  ELSE "null"

\* The listener methods request() calls before it returns its promise: the
\* start of the request and, when the request validator has thrown, the
\* catch and finally blocks, which then run before any await.
NotifiedBefore(kind, endpoint, data) ==
  IF kind = "fetch" THEN <<>>
  ELSE IF RequestError(kind, endpoint, data) = "null" THEN <<"onRequestStart">>
  ELSE <<"onRequestStart", "onRequestError", "onRequestComplete">>

\* An activation that awaits the promise src, or the rejection request()
\* has thrown.  hMarked: this is the first
\* query() for its key since invalidateQuery() marked the key's QueryState,
\* and no query() for the key was in flight then or is now.
AwaitingTask(kind, endpoint, data, config, key, fetchConfig) ==
  [kind |-> kind, endpoint |-> endpoint, data |-> data, config |-> config,
   thrown |-> RequestError(kind, endpoint, data),
   notified |-> NotifiedBefore(kind, endpoint, data),
   src |-> IF RequestError(kind, endpoint, data) = "null"
           THEN FetchSource(key, fetchConfig) ELSE 0,
   hit |-> IF RequestError(kind, endpoint, data) = "null"
           THEN HitAfterFetch(key, fetchConfig) ELSE NoResponse,
   refetchCount |-> IF kind = "query" THEN RefetchCountOrZero(QueryKey(endpoint, data)) ELSE 0,
   hOwner |-> /\ RequestError(kind, endpoint, data) = "null"
              /\ FetchBranch(key, fetchConfig) = "new",
   hMarked |-> /\ kind = "query"
               /\ QueryKey(endpoint, data) \in hInvalidated
               /\ ~queryCache[QueryKey(endpoint, data)].loading,
   hValid |-> IF kind = "query" THEN hValidData(endpoint, data) ELSE 0]

\* An activation that has returned: value holds what it resolved with, error
\* what it rejected with, notified the listener methods request() called,
\* in order.  hCalls is the number of transport attempts of the run
\* it awaited.
Returned(task, outcome, value, error, hCalls, notified) ==
  [kind |-> task.kind, endpoint |-> task.endpoint, data |-> task.data,
   config |-> task.config, src |-> task.src,
   outcome |-> outcome, value |-> value, error |-> error,
   notified |-> notified,
   hOwner |-> task.hOwner, hMarked |-> task.hMarked, hValid |-> task.hValid,
   hCalls |-> hCalls]

\* request() up to its await of fetch(), or through its catch block when
\* the request validator has thrown.
RequestStart(endpoint, data) ==
  /\ requestStates' =
       IF RequestValid(endpoint, data)
       THEN updateRequestState(endpoint, [loading |-> TRUE])
       ELSE updateRequestState(endpoint,
              [loading |-> FALSE, error |-> "RequestValidation"])
  /\ IF RequestValid(endpoint, data)
     THEN /\ runs' = RunsAfterFetch(ApiCacheKey(endpoint, data), ApiConfig(endpoint))
          /\ pendingRequests' =
               PendingAfterFetch(ApiCacheKey(endpoint, data), ApiConfig(endpoint))
     ELSE UNCHANGED <<runs, pendingRequests>>

NeverDisabled(config) == FALSE

\* !mergedConfig.enabled
Disabled(config) == ~config.enabled

\* return currentState, which is undefined when the key has no state.
CurrentState(queryKey) ==
  IF queryKey \in DOMAIN queryCache THEN <<queryCache[queryKey]>> ELSE <<>>

\* query(endpoint, data, config) up to its await, for the merged config.
QueryCall(endpoint, data, config) ==
  /\ issued' = issued + 1
  /\ LET queryKey == QueryKey(endpoint, data)
         task == AwaitingTask("query", endpoint, data, config,
                              ApiCacheKey(endpoint, data), ApiConfig(endpoint))
     IN IF Disabled(config)
        THEN /\ returned' = <<Returned([task EXCEPT !.src = 0, !.hOwner = FALSE],
                                       "resolved", CurrentState(queryKey), "null", 0,
                                       <<>>)>>
             /\ UNCHANGED <<requestStates, runs, pendingRequests, queryCache, tasks,
                            hInvalidated>>
        ELSE IF Deduped(queryKey, config)
        THEN /\ returned' = <<Returned([task EXCEPT !.src = 0, !.hOwner = FALSE],
                                       "resolved", <<queryCache[queryKey]>>, "null", 0,
                                       <<>>)>>
             /\ hInvalidated' = hInvalidated \ {queryKey}
             /\ UNCHANGED <<requestStates, runs, pendingRequests, queryCache, tasks>>
        ELSE /\ queryCache' = updateQueryState(queryCache, queryKey, [loading |-> TRUE])
             /\ RequestStart(endpoint, data)
             /\ tasks' = Put(tasks, issued + 1, task)
             /\ returned' = <<>>
             /\ hInvalidated' = hInvalidated \ {queryKey}
  /\ UNCHANGED <<now, served, cache, timers, store, prefetch>>

\* A caller calls query().
Query(endpoint, data, config) ==
  /\ issued < MaxIssued
  /\ QueryCall(endpoint, data, config)
  /\ UNCHANGED focus

\* mutate(endpoint, data, config) up to its await.
Mutate(endpoint, data, config) ==
  /\ issued < MaxIssued
  /\ issued' = issued + 1
  /\ queryCache' = OptimisticMark(queryCache, config)
  /\ RequestStart(endpoint, data)
  /\ tasks' = Put(tasks, issued + 1,
                  AwaitingTask("mutate", endpoint, data, config,
                               ApiCacheKey(endpoint, data), ApiConfig(endpoint)))
  /\ returned' = <<>>
  /\ UNCHANGED <<now, served, cache, hInvalidated, focus, timers,
                 store, prefetch>>

\* BinaryJSFetch.fetch(url, options, config) up to its return of a promise,
\* for the url and options of an endpoint.
FetchCall(endpoint, data, config) ==
  /\ issued' = issued + 1
  /\ runs' = RunsAfterFetch(ApiCacheKey(endpoint, data), MergeConfig(config))
  /\ pendingRequests' = PendingAfterFetch(ApiCacheKey(endpoint, data), MergeConfig(config))
  /\ tasks' = Put(tasks, issued + 1,
                  AwaitingTask("fetch", endpoint, data, NoMutationConfig,
                               ApiCacheKey(endpoint, data), MergeConfig(config)))
  /\ returned' = <<>>
  /\ UNCHANGED <<now, served, cache, requestStates, queryCache, hInvalidated,
                 focus, timers, store>>

\* A caller calls fetch().
Fetch(endpoint, data, config) ==
  /\ issued < MaxIssued
  /\ FetchCall(endpoint, data, config)
  /\ UNCHANGED prefetch

\* invalidateQuery(endpoint)
InvalidateQuery(prefix) ==
  /\ queryCache' = MarkStale(queryCache, Matching(queryCache, <<prefix>>))
  /\ hInvalidated' = hInvalidated \cup Matching(queryCache, <<prefix>>)
  /\ returned' = <<>>
  /\ UNCHANGED <<now, served, cache, pendingRequests, runs, requestStates, tasks,
                 issued, focus, timers, store, prefetch>>

\* invalidateQuery(endpoint) called from an event handler or a timer
\* callback: no promise job is waiting to run.
InvalidateFromEvent(prefix) ==
  /\ ~MicrotasksPending
  /\ InvalidateQuery(prefix)

\* clearQueryCache()
ClearQueryCache ==
  /\ queryCache' = <<>>
  /\ hInvalidated' = {}
  /\ returned' = <<>>
  /\ UNCHANGED <<now, served, cache, pendingRequests, runs, requestStates, tasks,
                 issued, focus, timers, store, prefetch>>

\* this.defaultQueryConfig.refetchOnWindowFocus
RefetchOnWindowFocus == TRUE

\* const [endpoint] = key.split(":")
EndpointOf(key) ==
  LET colon == CHOOSE i \in DOMAIN key :
                 key[i] = ":" /\ \A j \in 1..(i - 1) : key[j] # ":"
  IN SubSeq(key, 1, colon - 1)

\* The keys the forEach of refetchStaleQueries() calls query() for.
StaleKeys ==
  {k \in DOMAIN queryCache : queryCache[k].isStale /\ RefetchOnWindowFocus}

\* The keys the query() calls of refetchStaleQueries() add to queryCache;
\* Map.forEach visits an entry added during the iteration.
AddedKeys == {QueryKey(EndpointOf(k), Undefined) : k \in StaleKeys} \ DOMAIN queryCache

\* The orders in which a Map can hold the keys.
Orders(keys) ==
  {q \in [1..Cardinality(keys) -> keys] : \A i, j \in DOMAIN q : q[i] = q[j] => i = j}

\* The window receives focus: the listener calls refetchStaleQueries(), whose
\* forEach starts.
Focus ==
  /\ focus.queue = <<>>
  /\ focus.count < MaxFocus
  /\ ~MicrotasksPending
  /\ StaleKeys # {}
  /\ Cardinality(StaleKeys) + Cardinality(AddedKeys) <= MaxRefetch
  /\ \E order \in Orders(StaleKeys) :
       focus' = [queue |-> order, count |-> focus.count + 1,
                 hStale |-> StaleKeys, hIssued |-> issued]
  /\ returned' = <<>>
  /\ UNCHANGED <<now, served, cache, pendingRequests, runs, requestStates,
                 queryCache, tasks, issued, hInvalidated, timers,
                 store, prefetch>>

\* The forEach of refetchStaleQueries() visits the next stale key:
\* this.query(endpoint) up to its await.
FocusQuery ==
  /\ focus.queue # <<>>
  /\ QueryCall(EndpointOf(Head(focus.queue)), Undefined, defaultQueryConfig)
  /\ focus' = [focus EXCEPT !.queue =
                 IF QueryKey(EndpointOf(Head(focus.queue)), Undefined)
                      \in DOMAIN queryCache
                 THEN Tail(focus.queue)
                 ELSE Append(Tail(focus.queue),
                             QueryKey(EndpointOf(Head(focus.queue)), Undefined))]

\* The FetchResponse the await of fetch() yields: the object built from the
\* cache entry for this caller, or the one object the run resolved with.
FetchedResponse(task) == IF task.src = 0 THEN task.hit ELSE runs[task.src].response

\* The response the activation goes on with: for request(), the fetched
\* object after the response transform has been assigned to its data.
ResponseOf(task) ==
  IF task.kind = "fetch"
  THEN FetchedResponse(task)
  ELSE [FetchedResponse(task) EXCEPT
          !.data = ApplyTransform(task.endpoint, FetchedResponse(task).data)]

\* The await of the activation yields a value: fetch() has resolved and,
\* for query() and mutate(), request() has accepted the response.
Fulfilled(task) ==
  IF task.thrown # "null" THEN FALSE
  ELSE IF task.src # 0 /\ runs[task.src].phase # "resolved" THEN FALSE
  ELSE IF task.kind = "fetch" THEN TRUE
  ELSE ResponseValid(task.endpoint, ResponseOf(task).data)

\* The error the await of the activation throws.
ErrorOf(task) ==
  IF task.thrown # "null" THEN task.thrown
  ELSE IF task.src # 0 /\ runs[task.src].phase # "resolved" THEN runs[task.src].error
  ELSE IF Fulfilled(task) THEN "null"
  ELSE "ResponseValidation"

NotifiedAfterSilent(task) == <<>>

\* The listener methods request() calls after its await.
NotifiedAfter(task) ==
  IF task.kind = "fetch" \/ task.thrown # "null" THEN <<>>
  ELSE IF Fulfilled(task) THEN <<"onRequestSuccess", "onRequestComplete">>
  ELSE <<"onRequestError", "onRequestComplete">>

\* request() after its await: the success path, or the catch block.
RequestStateAfter(task) ==
  IF Fulfilled(task)
  THEN updateRequestState(task.endpoint,
         [data |-> ResponseOf(task).data, loading |-> FALSE, error |-> "null",
          metadata |-> [cacheHit |-> ResponseOf(task).metadata.cacheHit,
                        retryCount |-> ResponseOf(task).metadata.retryCount]])
  ELSE updateRequestState(task.endpoint, [loading |-> FALSE, error |-> ErrorOf(task)])

QueryStateAfterKeepsLoading(task) ==
  IF Fulfilled(task)
  THEN updateQueryState(queryCache, QueryKey(task.endpoint, task.data),
         [data |-> ResponseOf(task).data, loading |-> FALSE, error |-> "null",
          isStale |-> FALSE, lastUpdated |-> now,
          refetchCount |-> task.refetchCount + 1,
          metadata |-> ResponseOf(task).metadata])
  ELSE updateQueryState(queryCache, QueryKey(task.endpoint, task.data),
         [error |-> ErrorOf(task), isStale |-> TRUE])

QueryStateAfterKeepsFresh(task) ==
  IF Fulfilled(task)
  THEN updateQueryState(queryCache, QueryKey(task.endpoint, task.data),
         [data |-> ResponseOf(task).data, loading |-> FALSE, error |-> "null",
          isStale |-> FALSE, lastUpdated |-> now,
          refetchCount |-> task.refetchCount + 1,
          metadata |-> ResponseOf(task).metadata])
  ELSE updateQueryState(queryCache, QueryKey(task.endpoint, task.data),
         [loading |-> FALSE, error |-> ErrorOf(task)])

\* query() after its await: the success path, or the catch block.
QueryStateAfter(task) ==
  IF Fulfilled(task)
  THEN updateQueryState(queryCache, QueryKey(task.endpoint, task.data),
         [data |-> ResponseOf(task).data, loading |-> FALSE, error |-> "null",
          isStale |-> FALSE, lastUpdated |-> now,
          refetchCount |-> task.refetchCount + 1,
          metadata |-> ResponseOf(task).metadata])
  ELSE updateQueryState(queryCache, QueryKey(task.endpoint, task.data),
         [loading |-> FALSE, error |-> ErrorOf(task), isStale |-> TRUE])

\* mutate() after its await.
MutationStateAfter(task) ==
  IF Fulfilled(task)
  THEN SuccessMark(queryCache, task.config)
  ELSE RollbackMark(queryCache, task.config)

\* What the call returns when its promise resolved.
ValueAfter(task) ==
  CASE task.kind = "query" ->
         <<QueryStateAfter(task)[QueryKey(task.endpoint, task.data)]>>
    [] task.kind = "mutate" -> <<ResponseOf(task).data>>
    [] OTHER -> <<ResponseOf(task)>>

\* mergedConfig.refetchInterval, 0 when the config has none.
RefetchIntervalOrZero(config) ==
  IF "refetchInterval" \in DOMAIN config THEN config.refetchInterval ELSE 0

TimersAfterAlways(task) ==
  IF task.kind = "query" /\ RefetchIntervalOrZero(task.config) # 0
  THEN timers \cup {[key |-> QueryKey(task.endpoint, task.data),
                     at |-> TimerAt(RefetchIntervalOrZero(task.config)),
                     hSet |-> now]}
  ELSE timers

\* if (mergedConfig.refetchInterval) setTimeout(..., refetchInterval), on the
\* success path of query().  hSet is the time the timer was set at; timers
\* alike in key and in both times act as one.
TimersAfter(task) ==
  IF /\ task.kind = "query"
     /\ Fulfilled(task)
     /\ RefetchIntervalOrZero(task.config) # 0
  THEN timers \cup {[key |-> QueryKey(task.endpoint, task.data),
                     at |-> TimerAt(RefetchIntervalOrZero(task.config)),
                     hSet |-> now]}
  ELSE timers

\* flushQueue() after await Promise.all(...): when the last of the promises
\* it awaits has resolved, this.requestQueue = []; when one of them rejects,
\* flushQueue() rejects and leaves the queue as it is.
PrefetchAfter(t) ==
  IF t \notin prefetch.waiting THEN prefetch
  ELSE IF ~Fulfilled(tasks[t])
  THEN [prefetch EXCEPT !.waiting = {}, !.active = FALSE]
  ELSE IF prefetch.waiting = {t}
  THEN [prefetch EXCEPT !.waiting = {}, !.active = FALSE, !.queue = <<>>]
  ELSE [prefetch EXCEPT !.waiting = prefetch.waiting \ {t}]

\* A resolved run nobody awaits any more and pendingRequests no longer holds
\* is garbage.  The response object of a run that others still await keeps
\* what request() has assigned to its data.
RunsAfterResume(t) ==
  LET r == tasks[t].src
  IN IF r = 0 \/ runs[r].phase # "resolved" THEN runs
     ELSE IF /\ \A k \in DOMAIN pendingRequests : pendingRequests[k] # r
             /\ \A u \in DOMAIN tasks : u # t => tasks[u].src # r
     THEN Remove(runs, r)
     ELSE [runs EXCEPT ![r].response = ResponseOf(tasks[t])]

\* The awaits of an activation resume: request() after `await fetch`, then
\* query() or mutate() after `await request`.  The reactions of one promise
\* run in the order in which they were registered.
Resume(t) ==
  /\ t \in DOMAIN tasks
  /\ Ready(t)
  /\ \A u \in DOMAIN tasks :
       u < t => ~(Ready(u) /\ tasks[u].src = tasks[t].src /\ tasks[t].src # 0)
  /\ requestStates' = IF tasks[t].kind = "fetch" \/ tasks[t].thrown # "null"
                      THEN requestStates
                      ELSE RequestStateAfter(tasks[t])
  /\ queryCache' = CASE tasks[t].kind = "query" -> QueryStateAfter(tasks[t])
                     [] tasks[t].kind = "mutate" -> MutationStateAfter(tasks[t])
                     [] OTHER -> queryCache
  /\ tasks' = Remove(tasks, t)
  /\ returned' = <<Returned(tasks[t],
                     IF Fulfilled(tasks[t]) THEN "resolved" ELSE "rejected",
                     IF Fulfilled(tasks[t]) THEN ValueAfter(tasks[t]) ELSE <<>>,
                     ErrorOf(tasks[t]),
                     IF tasks[t].src = 0 THEN 0 ELSE runs[tasks[t].src].hCalls,
                     tasks[t].notified \o NotifiedAfter(tasks[t]))>>
  /\ runs' = RunsAfterResume(t)
  /\ hInvalidated' = IF tasks[t].kind = "query"
                     THEN hInvalidated \ {QueryKey(tasks[t].endpoint, tasks[t].data)}
                     ELSE hInvalidated
  /\ timers' = TimersAfter(tasks[t])
  /\ prefetch' = PrefetchAfter(t)
  /\ UNCHANGED <<now, served, cache, pendingRequests, issued, focus, store>>

\* A refetch-interval timer fires:
\* this.updateQueryState(queryKey, { isStale: true })
RefetchTimerFires(timer) ==
  /\ timer \in timers
  /\ now >= timer.at
  /\ ~MicrotasksPending
  /\ queryCache' = updateQueryState(queryCache, timer.key, [isStale |-> TRUE])
  /\ timers' = timers \ {timer}
  /\ returned' = <<>>
  /\ UNCHANGED <<now, served, cache, pendingRequests, runs, requestStates, tasks,
                 issued, hInvalidated, focus, store, prefetch>>

----------------------------------------------------------------------------
(* prefetch() and flushQueue() of BinaryJSFetch                            *)

\* The url and options callers of prefetch() pass, as an endpoint and data.
PrefetchRequests ==
  { [endpoint |-> <<"u">>, data |-> "1"],
    [endpoint |-> <<"u", "s">>, data |-> "1"] }

\* The config callers of prefetch() pass: no cache, no retry.
PrefetchConfig ==
  [cache |-> <<[enabled |-> FALSE, ttl |-> <<>>]>>,
   retry |-> <<[attempts |-> 0, delay |-> 1000, backoff |-> "linear"]>>,
   timeout |-> 1000]

\* prefetch(url, options, config): this.requestQueue.push(async () => ...).
\* hStarted counts, for each function pushed, the times it has been called.
Prefetch(request) ==
  /\ prefetch.todo = <<>>
  /\ prefetch.count < MaxPrefetch
  /\ prefetch' = [prefetch EXCEPT
       !.queue = Append(prefetch.queue,
                        [id |-> prefetch.count + 1, endpoint |-> request.endpoint,
                         data |-> request.data]),
       !.count = prefetch.count + 1,
       !.hStarted = Put(prefetch.hStarted, prefetch.count + 1, 0)]
  /\ returned' = <<>>
  /\ UNCHANGED <<now, served, cache, pendingRequests, runs, requestStates,
                 queryCache, tasks, issued, hInvalidated, focus, timers, store>>

\* flushQueue() is called: this.requestQueue.map((fn) => fn()) starts.
FlushQueue ==
  /\ prefetch.todo = <<>>
  /\ ~prefetch.active
  /\ prefetch.flushes < MaxFlush
  /\ prefetch.queue # <<>>
  /\ prefetch' = [prefetch EXCEPT
       !.todo = prefetch.queue,
       !.active = TRUE,
       !.waiting = {},
       !.flushes = prefetch.flushes + 1]
  /\ returned' = <<>>
  /\ UNCHANGED <<now, served, cache, pendingRequests, runs, requestStates,
                 queryCache, tasks, issued, hInvalidated, focus, timers, store>>

\* The map of flushQueue() calls the next function of the queue, which runs
\* up to its await of this.fetch().
FlushCall ==
  /\ prefetch.todo # <<>>
  /\ FetchCall(Head(prefetch.todo).endpoint, Head(prefetch.todo).data, PrefetchConfig)
  /\ prefetch' = [prefetch EXCEPT
       !.todo = Tail(prefetch.todo),
       !.waiting = prefetch.waiting \cup {issued + 1},
       !.hStarted = Put(prefetch.hStarted, Head(prefetch.todo).id,
                        prefetch.hStarted[Head(prefetch.todo).id] + 1)]

----------------------------------------------------------------------------
(* BinaryJSStore (src/unnamed/part_008), constructed with persist: true,   *)
(* storage: localStorage and a ttl.                                        *)

StoreTtl == 1000

\* The config the singleton is constructed with.
StoreConfig == [persist |-> TRUE, ttl |-> <<StoreTtl>>]

StoreKeys == {<<"k">>}

\* The values callers store, each named by its JSON text.
StoreValues == {"a", "b"}

\* `${key}_expiry`
ExpiryName(key) == key \o <<"_expiry">>

\* persistState(key, value) after its awaits.
StorageAfterPersist(storage, key, value) ==
  IF ~StoreConfig.persist THEN storage
  ELSE IF Falsy(StoreConfig.ttl) THEN Put(storage, key, value)
  ELSE Put(Put(storage, ExpiryName(key), now + StoreConfig.ttl[1]), key, value)

\* parseInt(this.storage.getItem(`${key}_expiry`) || "0")
StoredExpiry(storage, key) ==
  IF ExpiryName(key) \in DOMAIN storage THEN storage[ExpiryName(key)] ELSE 0

\* The test of loadPersistedState() that discards an entry.
Expired(storage, key) ==
  /\ ~Falsy(StoreConfig.ttl)
  /\ now > StoredExpiry(storage, key)

\* What loadPersistedState(key) resolves with: <<>> for undefined.
LoadedValue(storage, key) ==
  IF ~StoreConfig.persist \/ key \notin DOMAIN storage THEN <<>>
  ELSE IF Expired(storage, key) THEN <<>>
  ELSE <<storage[key]>>

\* The Storage after loadPersistedState(key).
StorageAfterLoad(storage, key) ==
  IF StoreConfig.persist /\ key \in DOMAIN storage /\ Expired(storage, key)
  THEN Remove(Remove(storage, key), ExpiryName(key))
  ELSE storage

\* !this.state.has(key) && this.config.persist
LoadsPersisted(key) == key \notin DOMAIN store.state /\ StoreConfig.persist

FreeOp == CHOOSE id \in 1..MaxStoreOps : id \notin DOMAIN store.ops

\* set(key, value) up to its await of persistState().
StoreSet(key, value) ==
  /\ store.count < MaxStoreOps
  /\ store' = [store EXCEPT
       !.state = Put(store.state, key, value),
       !.ops = Put(store.ops, FreeOp, [op |-> "set", key |-> key, value |-> <<value>>,
                                       hExpired |-> FALSE]),
       !.count = store.count + 1,
       !.returned = <<>>]
  /\ UNCHANGED <<now, served, cache, pendingRequests, runs, requestStates,
                 queryCache, tasks, issued, returned, hInvalidated, focus, timers,
                 prefetch>>

\* get(key) up to its first await: the synchronous part of
\* loadPersistedState(), or nothing when state has the key.  hExpired: the
\* Storage holds an expiry for the key that has passed when get() is called.
StoreGet(key) ==
  /\ store.count < MaxStoreOps
  /\ store' = [store EXCEPT
       !.storage = IF LoadsPersisted(key) THEN StorageAfterLoad(store.storage, key)
                   ELSE store.storage,
       !.ops = Put(store.ops, FreeOp,
                   [op |-> "get", key |-> key,
                    value |-> IF LoadsPersisted(key)
                              THEN LoadedValue(store.storage, key) ELSE <<>>,
                    hExpired |-> /\ ExpiryName(key) \in DOMAIN store.storage
                                 /\ now > store.storage[ExpiryName(key)]]),
       !.count = store.count + 1,
       !.returned = <<>>]
  /\ UNCHANGED <<now, served, cache, pendingRequests, runs, requestStates,
                 queryCache, tasks, issued, returned, hInvalidated, focus, timers,
                 prefetch>>

\* What state holds after get() has resumed: if (persisted)
\* this.state.set(key, persisted)
StateAfterLoad(o) ==
  IF o.op = "get" /\ o.value # <<>>
  THEN Put(store.state, o.key, o.value[1])
  ELSE store.state

\* An activation of set() or get() resumes from its await: set() writes the
\* Storage; get() puts what it loaded into state and returns state.get(key).
StoreResume(id) ==
  /\ id \in DOMAIN store.ops
  /\ store' = [store EXCEPT
       !.storage = IF store.ops[id].op = "set"
                   THEN StorageAfterPersist(store.storage, store.ops[id].key,
                                            store.ops[id].value[1])
                   ELSE store.storage,
       !.state = StateAfterLoad(store.ops[id]),
       !.ops = Remove(store.ops, id),
       !.returned =
          IF store.ops[id].op = "get"
          THEN <<[key |-> store.ops[id].key,
                  value |-> IF store.ops[id].key \in DOMAIN StateAfterLoad(store.ops[id])
                            THEN <<StateAfterLoad(store.ops[id])[store.ops[id].key]>>
                            ELSE <<>>,
                  hExpired |-> store.ops[id].hExpired]>>
          ELSE <<>>]
  /\ UNCHANGED <<now, served, cache, pendingRequests, runs, requestStates,
                 queryCache, tasks, issued, returned, hInvalidated, focus, timers,
                 prefetch>>

\* The page is loaded again: a new BinaryJSStore with an empty state over
\* the same Storage.
StoreReload ==
  /\ store.ops = <<>>
  /\ store.state # <<>>
  /\ store' = [store EXCEPT !.state = <<>>, !.returned = <<>>]
  /\ UNCHANGED <<now, served, cache, pendingRequests, runs, requestStates,
                 queryCache, tasks, issued, returned, hInvalidated, focus, timers,
                 prefetch>>

----------------------------------------------------------------------------
(* The system                                                              *)

\* The state after the singletons are constructed, with no persisted cache.
Init ==
  /\ now = 0
  /\ served = 0
  /\ cache = <<>>
  /\ pendingRequests = <<>>
  /\ runs = <<>>
  /\ requestStates = <<>>
  /\ queryCache = <<>>
  /\ tasks = <<>>
  /\ issued = 0
  /\ returned = <<>>
  /\ hInvalidated = {}
  /\ focus = [queue |-> <<>>, count |-> 0, hStale |-> {}, hIssued |-> 0]
  /\ timers = {}
  /\ store = [state |-> <<>>, storage |-> <<>>, ops |-> <<>>, count |-> 0,
              returned |-> <<>>]
  /\ prefetch = [queue |-> <<>>, todo |-> <<>>, waiting |-> {}, active |-> FALSE,
                 count |-> 0, flushes |-> 0, hStarted |-> <<>>]

\* The callers use BinaryJSApiClient only.
Next ==
  \/ \E endpoint \in EndpointNames, data \in RequestData :
       Query(endpoint, data, defaultQueryConfig)
  \/ \E endpoint \in EndpointNames, data \in RequestData, config \in MutationConfigs :
       Mutate(endpoint, data, config)
  \/ \E prefix \in Prefixes : InvalidateQuery(prefix)
  \/ ClearQueryCache
  \/ ClearCache
  \/ \E r \in RunIds : TransportSucceed(r)
  \/ \E r \in RunIds, error \in TransportErrors : TransportFail(r, error)
  \/ \E r \in RunIds : BackoffElapsed(r)
  \/ \E t \in 1..MaxIssued : Resume(t)
  \/ Tick

Spec == Init /\ [][Next]_vars

\* The callers use BinaryJSFetch only.
NextFetch ==
  \/ \E endpoint \in EndpointNames, data \in RequestData, config \in DirectConfigs :
       Fetch(endpoint, data, config)
  \/ ClearCache
  \/ \E r \in RunIds : TransportSucceed(r)
  \/ \E r \in RunIds, error \in TransportErrors : TransportFail(r, error)
  \/ \E r \in RunIds : BackoffElapsed(r)
  \/ \E t \in 1..MaxIssued : Resume(t)
  \/ Tick

SpecFetch == Init /\ [][NextFetch]_vars

\* The callers use BinaryJSFetch with configurations that retry soon.
NextRetry ==
  \/ \E endpoint \in EndpointNames, data \in RequestData, config \in RetryConfigs :
       Fetch(endpoint, data, config)
  \/ \E r \in RunIds : TransportSucceed(r)
  \/ \E r \in RunIds, error \in TransportErrors : TransportFail(r, error)
  \/ \E r \in RunIds : BackoffElapsed(r)
  \/ \E t \in 1..MaxIssued : Resume(t)
  \/ Tick

SpecRetry == Init /\ [][NextRetry]_vars

\* The callers use BinaryJSApiClient and BinaryJSFetch side by side.
NextAll ==
  \/ Next
  \/ \E endpoint \in EndpointNames, data \in RequestData, config \in DirectConfigs :
       Fetch(endpoint, data, config)

SpecAll == Init /\ [][NextAll]_vars

\* The names callers pass to query() and mutate().
RequestedNames == EndpointNames \cup {ValidatedEndpoint, UnconfiguredEndpoint}

\* The callers use BinaryJSApiClient with every endpoint name and config.
NextClient ==
  \/ Next
  \/ \E endpoint \in RequestedNames, data \in RequestData, config \in QueryConfigs :
       Query(endpoint, data, config)
  \/ \E endpoint \in RequestedNames, data \in RequestData :
       Mutate(endpoint, data, PlainMutationConfig)

SpecClient == Init /\ [][NextClient]_vars

\* The callers use BinaryJSApiClient and pass invalidateQuery() any string.
NextInvalidate ==
  \/ Next
  \/ \E prefix \in ParameterPrefixes : InvalidateQuery(prefix)

SpecInvalidate == Init /\ [][NextInvalidate]_vars

\* The callers use query(), and event handlers call invalidateQuery().
NextEvent ==
  \/ \E endpoint \in EndpointNames, data \in RequestData :
       Query(endpoint, data, defaultQueryConfig)
  \/ \E prefix \in Prefixes : InvalidateFromEvent(prefix)
  \/ \E r \in RunIds : TransportSucceed(r)
  \/ \E r \in RunIds, error \in TransportErrors : TransportFail(r, error)
  \/ \E r \in RunIds : BackoffElapsed(r)
  \/ \E t \in 1..MaxIssued : Resume(t)
  \/ Tick

SpecEvent == Init /\ [][NextEvent]_vars

\* The callers use query() with a refetchInterval, invalidateQuery() and
\* clearQueryCache().
NextInterval ==
  \/ \E endpoint \in EndpointNames, data \in RequestData,
        config \in IntervalQueryConfigs :
       Query(endpoint, data, config)
  \/ \E prefix \in Prefixes : InvalidateQuery(prefix)
  \/ ClearQueryCache
  \/ \E r \in RunIds : TransportSucceed(r)
  \/ \E r \in RunIds, error \in TransportErrors : TransportFail(r, error)
  \/ \E r \in RunIds : BackoffElapsed(r)
  \/ \E t \in 1..MaxIssued : Resume(t)
  \/ \E timer \in timers : RefetchTimerFires(timer)
  \/ Tick

SpecInterval == Init /\ [][NextInterval]_vars

\* The callers use query() and mutate() with the endpoint that has a
\* response transform.
NextTransform ==
  \/ \E data \in RequestData : Query(TransformedEndpoint, data, defaultQueryConfig)
  \/ \E data \in RequestData : Mutate(TransformedEndpoint, data, NoMutationConfig)
  \/ \E r \in RunIds : TransportSucceed(r)
  \/ \E r \in RunIds, error \in TransportErrors : TransportFail(r, error)
  \/ \E r \in RunIds : BackoffElapsed(r)
  \/ \E t \in 1..MaxIssued : Resume(t)
  \/ Tick

SpecTransform == Init /\ [][NextTransform]_vars

\* The callers use query() and clearQueryCache(), and time goes on.
NextLive ==
  \/ \E endpoint \in EndpointNames, data \in RequestData :
       Query(endpoint, data, defaultQueryConfig)
  \/ ClearQueryCache
  \/ \E r \in RunIds : TransportSucceed(r)
  \/ \E r \in RunIds, error \in TransportErrors : TransportFail(r, error)
  \/ \E r \in RunIds : BackoffElapsed(r)
  \/ \E t \in 1..MaxIssued : Resume(t)
  \/ Tick
  \/ TickLast

\* Every transport attempt is answered or aborted in the end, every timer
\* fires when it is due, every promise job runs, and the clock goes on.
SpecLive ==
  /\ Init
  /\ [][NextLive]_vars
  /\ \A r \in RunIds :
       WF_vars(TransportSucceed(r) \/ \E error \in TransportErrors : TransportFail(r, error))
  /\ \A r \in RunIds : WF_vars(BackoffElapsed(r))
  /\ \A t \in 1..MaxIssued : WF_vars(Resume(t))
  /\ WF_vars(Tick \/ TickLast)

\* The callers use prefetch() and flushQueue().  The map of flushQueue() is
\* one synchronous stretch: nothing else runs until it has called every
\* function of the queue.
NextQueue ==
  \/ \E request \in PrefetchRequests : Prefetch(request)
  \/ FlushQueue
  \/ FlushCall
  \/ /\ prefetch.todo = <<>>
     /\ \E r \in RunIds : TransportSucceed(r)
  \/ /\ prefetch.todo = <<>>
     /\ \E r \in RunIds, error \in TransportErrors : TransportFail(r, error)
  \/ /\ prefetch.todo = <<>>
     /\ \E t \in 1..(MaxPrefetch * MaxFlush) : Resume(t)
  \/ /\ prefetch.todo = <<>>
     /\ Tick

SpecQueue == Init /\ [][NextQueue]_vars

\* The callers use BinaryJSStore.  Promise jobs run before the clock moves.
NextStore ==
  \/ \E key \in StoreKeys, value \in StoreValues : StoreSet(key, value)
  \/ \E key \in StoreKeys : StoreGet(key)
  \/ \E id \in 1..MaxStoreOps : StoreResume(id)
  \/ StoreReload
  \/ /\ store.ops = <<>>
     /\ Tick

SpecStore == Init /\ [][NextStore]_vars

\* The callers use query() and invalidateQuery(), and the window receives
\* focus.  The forEach of the focus listener is one synchronous stretch:
\* nothing else runs until it has visited every key.
NextFocus ==
  \/ Focus
  \/ FocusQuery
  \/ /\ focus.queue = <<>>
     /\ \E endpoint \in EndpointNames, data \in RequestData :
          Query(endpoint, data, defaultQueryConfig)
  \/ /\ focus.queue = <<>>
     /\ \E prefix \in Prefixes : InvalidateQuery(prefix)
  \/ /\ focus.queue = <<>>
     /\ \E r \in RunIds : TransportSucceed(r)
  \/ /\ focus.queue = <<>>
     /\ \E r \in RunIds, error \in TransportErrors : TransportFail(r, error)
  \/ /\ focus.queue = <<>>
     /\ \E r \in RunIds : BackoffElapsed(r)
  \/ /\ focus.queue = <<>>
     /\ \E t \in 1..(MaxIssued + MaxRefetch) : Resume(t)
  \/ /\ focus.queue = <<>>
     /\ Tick

SpecFocus == Init /\ [][NextFocus]_vars

----------------------------------------------------------------------------
(* Properties                                                              *)

\* Two activations of query() for the same endpoint and parameters.
SameQuery(a, b) ==
  /\ a.kind = "query"
  /\ b.kind = "query"
  /\ a.endpoint = b.endpoint
  /\ a.data = b.data

\* The executeRequest run is still working: an attempt is out or it waits
\* to retry.
InFlight(r) == runs[r].phase \in {"transport", "backoff"}

\* C1 as stated: query() calls for one key that have not yet returned are all
\* served by one executeRequest run.
C1_UnreturnedQueriesShareOneRun ==
  \A t, u \in DOMAIN tasks :
    (SameQuery(tasks[t], tasks[u]) /\ tasks[t].src # 0 /\ tasks[u].src # 0)
      => tasks[t].src = tasks[u].src

\* C1, amended: a query() issued while the executeRequest run of an earlier
\* query() for the same key is still in flight joins that run and starts no
\* run of its own, and a run whose first attempt succeeded has called the
\* transport once.
C1_QueryJoinsRunInFlight ==
  [][ /\ \A id \in DOMAIN tasks' \ DOMAIN tasks :
           \A t \in DOMAIN tasks :
             (/\ SameQuery(tasks'[id], tasks[t])
              /\ tasks[t].src # 0
              /\ InFlight(tasks[t].src))
               => /\ tasks'[id].src = tasks[t].src
                  /\ ~tasks'[id].hOwner
                  /\ runs' = runs
      /\ \A r \in DOMAIN runs' :
           (runs'[r].phase = "resolved" /\ runs'[r].retryCount = 0)
             => runs'[r].hCalls = 1 ]_vars

\* Two query() calls for one key await the same run, whose first attempt has
\* succeeded after one transport call.
C1_Witness ==
  \E t, u \in DOMAIN tasks :
    /\ t # u
    /\ SameQuery(tasks[t], tasks[u])
    /\ tasks[t].src # 0
    /\ tasks[t].src = tasks[u].src
    /\ runs[tasks[t].src].phase = "resolved"
    /\ runs[tasks[t].src].hCalls = 1

\* C2: whatever query(), mutate(), fetch(), clearCache(), invalidateQuery(),
\* timeouts and retries have happened, at most one transport call is
\* outstanding for any one cache key.
C2_OneOutstandingCallPerKey ==
  \A r1, r2 \in DOMAIN runs :
    (/\ runs[r1].phase = "transport"
     /\ runs[r2].phase = "transport"
     /\ runs[r1].key = runs[r2].key)
      => r1 = r2

\* A retry is outstanding for a key after clearCache(), and a query() and a
\* fetch() for that key both await it.
C2_Witness ==
  \E r \in DOMAIN runs :
    /\ runs[r].phase = "transport"
    /\ runs[r].retryCount >= 1
    /\ runs[r].hOutdated
    /\ \E t, u \in DOMAIN tasks :
         /\ tasks[t].kind = "query"
         /\ tasks[u].kind = "fetch"
         /\ tasks[t].src = r
         /\ tasks[u].src = r

\* C3: pendingRequests holds no entry for a request with a retry
\* configuration that has completed, whether it succeeded or failed after
\* its retries.
C3_CompletedRequestLeavesNoPendingEntry ==
  \A k \in DOMAIN pendingRequests :
    runs[pendingRequests[k]].config.retry # <<>> => InFlight(pendingRequests[k])

\* C4: when every attempt fails under a retry configuration with
\* attempts = N, the run has called the transport N + 1 times when it
\* rejects and when the rejection reaches the caller.
C4_AttemptsPlusOneCalls ==
  /\ \A r \in DOMAIN runs :
       (runs[r].phase = "rejected" /\ runs[r].config.retry # <<>>)
         => runs[r].hCalls = runs[r].config.retry[1].attempts + 1
  /\ IF returned # <<>>
     THEN (returned[1].outcome = "rejected"
           /\ runs[returned[1].src].config.retry # <<>>)
            => returned[1].hCalls = runs[returned[1].src].config.retry[1].attempts + 1
     ELSE TRUE

\* A fetch() with attempts = 3 rejects after four transport calls.
C4_Witness ==
  /\ returned # <<>>
  /\ returned[1].kind = "fetch"
  /\ returned[1].outcome = "rejected"
  /\ runs[returned[1].src].config.retry[1].attempts = 3
  /\ returned[1].hCalls = 4

\* C5: the error a caller receives when the first attempt and every retry
\* failed is MaxRetriesExceeded, not the error of the transport.
C5_CallerReceivesMaxRetriesExceeded ==
  IF returned # <<>>
  THEN (/\ returned[1].outcome = "rejected"
        /\ runs[returned[1].src].config.retry # <<>>
        /\ runs[returned[1].src].config.retry[1].attempts >= 1)
         => returned[1].error = "MaxRetriesExceeded"
  ELSE TRUE

\* C6: a run that succeeds after k failed attempts, k within the configured
\* attempts, reports retryCount = k, and so does the QueryState that a
\* query() awaiting it returns and stores.
C6_RetryCountIsFailedAttempts ==
  /\ \A r \in DOMAIN runs :
       runs[r].phase = "resolved"
         => /\ runs[r].response.metadata.retryCount = runs[r].hCalls - 1
            /\ runs[r].response.metadata.retryCount <= AttemptsOrZero(runs[r].config)
  /\ IF returned # <<>>
     THEN (/\ returned[1].kind = "query"
           /\ returned[1].outcome = "resolved"
           /\ returned[1].src # 0)
            => /\ returned[1].value[1].metadata.retryCount = returned[1].hCalls - 1
               /\ queryCache[QueryKey(returned[1].endpoint, returned[1].data)]
                    .metadata.retryCount = returned[1].hCalls - 1
     ELSE TRUE

\* A query() returns after one failed attempt and one that succeeded.
C6_Witness ==
  /\ returned # <<>>
  /\ returned[1].kind = "query"
  /\ returned[1].outcome = "resolved"
  /\ returned[1].hCalls = 2
  /\ returned[1].value[1].metadata.retryCount = 1

\* C7: a query() issued while the cache entry of its key is within the ttl
\* and nothing was invalidated or cleared returns the cached data with
\* metadata.cacheHit = true and without a transport call.
C7_QueryWithinTtlIsCacheHit ==
  IF returned # <<>>
  THEN (returned[1].kind = "query" /\ returned[1].hValid # 0)
        => /\ returned[1].outcome = "resolved"
           /\ returned[1].src = 0
           /\ returned[1].value[1].data = returned[1].hValid
           /\ returned[1].value[1].metadata.cacheHit
  ELSE TRUE

\* C8: every QueryState marked by invalidateQuery() is stale until its key
\* is queried again, and the next query() for such a key awaits a transport
\* call instead of being answered from the cache.
C8_InvalidatedQueryCallsTransport ==
  /\ \A k \in hInvalidated : k \in DOMAIN queryCache /\ queryCache[k].isStale
  /\ \A t \in DOMAIN tasks : tasks[t].hMarked => tasks[t].src # 0

\* C9: the step in which mutate() is called with optimisticUpdate leaves
\* every existing QueryState whose key starts with one of the
\* invalidateQueries stale, while the mutation awaits its request.
C9_OptimisticMarkBeforeAwait ==
  [][ \A id \in DOMAIN tasks' \ DOMAIN tasks :
        (tasks'[id].kind = "mutate" /\ tasks'[id].config.optimisticUpdate)
          => \A k \in DOMAIN queryCache :
               MatchesAny(k, tasks'[id].config.invalidateQueries)
                 => (k \in DOMAIN queryCache' /\ queryCache'[k].isStale) ]_vars

\* An optimistic mutate() awaits its transport call, and a QueryState that
\* a successful query() had made fresh is stale.
C9_Witness ==
  \E t \in DOMAIN tasks :
    /\ tasks[t].kind = "mutate"
    /\ tasks[t].config.optimisticUpdate
    /\ tasks[t].src # 0
    /\ runs[tasks[t].src].phase = "transport"
    /\ \E k \in DOMAIN queryCache :
         /\ MatchesAny(k, tasks[t].config.invalidateQueries)
         /\ queryCache[k].isStale
         /\ queryCache[k].refetchCount >= 1
         /\ queryCache[k].error = "null"
         /\ ~queryCache[k].loading

\* C10: the response of a run that was in flight when clearCache() ran is
\* not in the cache entry of its key.
C10_OutdatedResponseNotCached ==
  \A r \in DOMAIN runs :
    (runs[r].phase = "resolved" /\ runs[r].hOutdated)
      => ~(/\ runs[r].key \in DOMAIN cache
           /\ cache[runs[r].key].data = runs[r].response.data)

\* No activation awaits the result of a transport call for the query key.
NoTransportResultDue(k) ==
  \A t \in DOMAIN tasks :
    QueryKey(tasks[t].endpoint, tasks[t].data) = k => tasks[t].src = 0

\* C12: isStale of a QueryState never goes from true to false while no
\* activation for the key awaits the result of a transport call: it is not
\* cleared by time, by a timer, by invalidateQuery(), by mutate(), or by a
\* result served from the cache.
C12_StaleClearedOnlyByTransportResult ==
  [][ \A k \in DOMAIN queryCache \cap DOMAIN queryCache' :
        (queryCache[k].isStale /\ ~queryCache'[k].isStale)
          => ~NoTransportResultDue(k) ]_vars

\* C13: lastUpdated of a QueryState never changes while no activation for
\* the key awaits the result of a transport call: it does not change when a
\* query() is answered from cached data.
C13_LastUpdatedOnlyByTransportResult ==
  [][ \A k \in DOMAIN queryCache \cap DOMAIN queryCache' :
        queryCache'[k].lastUpdated # queryCache[k].lastUpdated
          => ~NoTransportResultDue(k) ]_vars

\* C15: every mutate() call awaits a transport call of its own: none is
\* answered from the cache or with the pending request of another call.
C15_MutateOwnsItsTransportCall ==
  \A t \in DOMAIN tasks : tasks[t].kind = "mutate" => tasks[t].hOwner

\* C19: when mutate() has resolved, every QueryState whose key starts with
\* one of its invalidateQueries is stale, with or without optimisticUpdate,
\* and a query() for such a key would not take the dedupe short-circuit.
C19_SuccessfulMutateMarksStale ==
  IF returned # <<>>
  THEN (returned[1].kind = "mutate" /\ returned[1].outcome = "resolved")
        => \A k \in DOMAIN queryCache :
             MatchesAny(k, returned[1].config.invalidateQueries)
               => /\ queryCache[k].isStale
                  /\ ~Deduped(k, defaultQueryConfig)
  ELSE TRUE

\* A mutate() without optimisticUpdate has resolved, and a QueryState that a
\* successful query() had filled is stale.
C19_Witness ==
  /\ returned # <<>>
  /\ returned[1].kind = "mutate"
  /\ returned[1].outcome = "resolved"
  /\ ~returned[1].config.optimisticUpdate
  /\ \E k \in DOMAIN queryCache :
       /\ MatchesAny(k, returned[1].config.invalidateQueries)
       /\ queryCache[k].isStale
       /\ queryCache[k].refetchCount >= 1
       /\ queryCache[k].error = "null"

\* C14: the step in which a query() with enabled = false returns gives the
\* caller the current QueryState of the key and changes nothing: no run is
\* started, no transport call is made, and queryCache, the fetch cache,
\* pendingRequests and the request states stay as they are.
C14_DisabledQueryChangesNothing ==
  [][ (/\ returned' # <<>>
       /\ returned'[1].kind = "query"
       /\ ~returned'[1].config.enabled)
        => /\ returned'[1].outcome = "resolved"
           /\ returned'[1].value =
                CurrentState(QueryKey(returned'[1].endpoint, returned'[1].data))
           /\ returned'[1].hCalls = 0
           /\ returned'[1].notified = <<>>
           /\ UNCHANGED <<queryCache, cache, pendingRequests, runs, served,
                          requestStates, tasks>> ]_vars

\* A query() with enabled = false has returned the QueryState of a key for
\* which another query() is in flight.
C14_Witness ==
  /\ returned # <<>>
  /\ returned[1].kind = "query"
  /\ ~returned[1].config.enabled
  /\ returned[1].value # <<>>
  /\ returned[1].value[1].loading
  /\ \E t \in DOMAIN tasks :
       /\ SameQuery(tasks[t], returned[1])
       /\ tasks[t].src # 0
       /\ InFlight(tasks[t].src)

\* C16: a request() for an endpoint name that is not among the configured
\* endpoints fails at once with an endpoint-not-configured error: no
\* listener hears of a start, no request state is written for the name, and
\* no transport call is made for it.
C16_UnconfiguredEndpointFailsImmediately ==
  /\ UnconfiguredEndpoint \notin DOMAIN requestStates
  /\ \A t \in DOMAIN tasks :
       tasks[t].endpoint = UnconfiguredEndpoint
         => /\ tasks[t].thrown = "NotConfigured"
            /\ tasks[t].notified = <<>>
            /\ tasks[t].src = 0

Notified(activation, method) ==
  \E i \in DOMAIN activation.notified : activation.notified[i] = method

\* C17: a validation failure is never retried.  The step in which the
\* request validator rejects the data starts no run and makes no transport
\* call, records the error in the endpoint's request state and notifies
\* onRequestError; the step in which request() rejects a response the
\* response validator refuses starts no run and no transport attempt,
\* records the error and notifies onRequestError; the caller's promise is
\* rejected with the validation error.
C17_ValidationFailureNotRetried ==
  [][ /\ \A t \in DOMAIN tasks' \ DOMAIN tasks :
           tasks'[t].thrown = "RequestValidation"
             => /\ tasks'[t].src = 0
                /\ UNCHANGED <<runs, pendingRequests, served, cache>>
                /\ requestStates'[tasks'[t].endpoint].error = "RequestValidation"
                /\ ~requestStates'[tasks'[t].endpoint].loading
                /\ Notified(tasks'[t], "onRequestError")
      /\ (/\ returned' # <<>>
          /\ returned'[1].error \in {"RequestValidation", "ResponseValidation"})
           => /\ returned'[1].outcome = "rejected"
              /\ Notified(returned'[1], "onRequestError")
              /\ ~Notified(returned'[1], "onRequestSuccess")
              /\ DOMAIN runs' \subseteq DOMAIN runs
              /\ \A r \in DOMAIN runs' : runs'[r] = runs[r]
              /\ UNCHANGED <<served, pendingRequests, cache>>
              /\ returned'[1].error = "RequestValidation"
                   => returned'[1].hCalls = 0
              /\ returned'[1].error = "ResponseValidation"
                   => /\ requestStates'[returned'[1].endpoint].error
                           = "ResponseValidation"
                      /\ ~requestStates'[returned'[1].endpoint].loading ]_vars

\* A mutate() has been rejected because the response validator refused the
\* response of its single transport attempt, while a query() whose data the
\* request validator refused waits to be rejected.
C17_Witness ==
  /\ returned # <<>>
  /\ returned[1].error = "ResponseValidation"
  /\ returned[1].hCalls = 1
  /\ \E t \in DOMAIN tasks :
       /\ tasks[t].thrown = "RequestValidation"
       /\ tasks[t].kind = "query"
       /\ requestStates[tasks[t].endpoint].error = "ResponseValidation"

\* C20: when the request of a mutate() fails, the caller's promise is
\* rejected with the error the request failed with; if rollbackOnError is
\* set, every QueryState whose key matches invalidateQueries is stale
\* afterwards; if neither rollbackOnError nor optimisticUpdate is set, the
\* steps of the mutate(), its call and its rejection, change no QueryState.
C20_FailedMutateRethrowsAndRollsBack ==
  [][ /\ (/\ returned' # <<>>
          /\ returned'[1].kind = "mutate"
          /\ returned'[1].outcome = "rejected")
           => /\ returned'[1].value = <<>>
              /\ returned'[1].error # "null"
              /\ (/\ returned'[1].src # 0
                  /\ runs[returned'[1].src].phase = "rejected")
                   => returned'[1].error = runs[returned'[1].src].error
              /\ returned'[1].config.rollbackOnError
                   => \A k \in DOMAIN queryCache' :
                        MatchesAny(k, returned'[1].config.invalidateQueries)
                          => queryCache'[k].isStale
              /\ (/\ ~returned'[1].config.rollbackOnError
                  /\ ~returned'[1].config.optimisticUpdate)
                   => queryCache' = queryCache
      /\ \A t \in DOMAIN tasks' \ DOMAIN tasks :
           (/\ tasks'[t].kind = "mutate"
            /\ ~tasks'[t].config.optimisticUpdate)
             => queryCache' = queryCache ]_vars

\* A mutate() with rollbackOnError has been rejected with the error of its
\* own failed transport call, and a QueryState a query() had completed
\* successfully is stale.
C20_Witness ==
  /\ returned # <<>>
  /\ returned[1].kind = "mutate"
  /\ returned[1].outcome = "rejected"
  /\ returned[1].config.rollbackOnError
  /\ returned[1].hOwner
  /\ returned[1].error \in TransportErrors
  /\ \E k \in DOMAIN queryCache :
       /\ MatchesAny(k, returned[1].config.invalidateQueries)
       /\ queryCache[k].refetchCount >= 1
       /\ queryCache[k].error = "null"
       /\ queryCache[k].isStale

\* C11: a fetch() with the cache enabled is answered from the cache if and
\* only if the key has an entry and the ttl is unset or now - timestamp is
\* less than the ttl, for every ttl, 0 included.
C11_HitIffWithinTtl ==
  \A config \in DirectConfigs, cacheKey \in DOMAIN cache :
    LET mergedConfig == MergeConfig(config)
    IN CacheEnabled(mergedConfig)
         => (FetchBranch(cacheKey, mergedConfig) = "hit"
               <=> IF mergedConfig.cache[1].ttl = <<>>
                   THEN TRUE
                   ELSE now - cache[cacheKey].timestamp
                          < mergedConfig.cache[1].ttl[1])

\* C18: when the forEach of the focus listener ends, a query() it started
\* is under way for every key that was stale, with no query() in flight,
\* when the window received focus, and that query() has the key's endpoint
\* and parameters.
C18_FocusRefetchesEveryStaleKey ==
  [][ (focus.queue # <<>> /\ focus'.queue = <<>>)
        => \A k \in focus'.hStale :
             (\A t \in DOMAIN tasks :
                t <= focus.hIssued
                  => QueryKey(tasks[t].endpoint, tasks[t].data) # k)
             => \E t \in DOMAIN tasks' :
               /\ t > focus'.hIssued
               /\ tasks'[t].kind = "query"
               /\ QueryKey(tasks'[t].endpoint, tasks'[t].data) = k ]_vars

\* The wait the retry policy prescribes before retry i.
BackoffWait(i, retry) ==
  IF retry.backoff = "linear" THEN retry.delay * i ELSE retry.delay * 2 ^ (i - 1)

\* C22: in a run with a retry policy, a failed attempt that is not the last
\* is followed by the wait before retry i, delay * i (linear) or
\* delay * 2^(i-1) (exponential), where i counts the retries from 1 up to
\* attempts; the last failed attempt rejects the run with no wait; and a
\* transport attempt after the first is made only when such a wait has
\* elapsed, one wait for one retry.
C22_OneWaitBeforeEachRetry ==
  [][ \A r \in DOMAIN runs \cap DOMAIN runs' :
        runs[r].config.retry # <<>> =>
          /\ (runs[r].phase = "transport" /\ runs'[r].phase = "backoff")
               => /\ runs'[r].retryCount = runs[r].retryCount + 1
                  /\ runs'[r].retryCount <= runs[r].config.retry[1].attempts
                  /\ runs'[r].hWait =
                       BackoffWait(runs'[r].retryCount, runs[r].config.retry[1])
                  /\ runs'[r].timer = TimerAt(runs'[r].hWait)
                  /\ runs'[r].hCalls = runs[r].hCalls
          /\ (runs[r].phase = "transport" /\ runs'[r].phase = "rejected")
               => /\ runs[r].retryCount = runs[r].config.retry[1].attempts
                  /\ runs'[r].retryCount = runs[r].retryCount
                  /\ runs'[r].hCalls = runs[r].hCalls
          /\ runs'[r].hCalls # runs[r].hCalls
               => /\ runs[r].phase = "backoff"
                  /\ runs'[r].phase = "transport"
                  /\ now >= runs[r].timer
                  /\ runs'[r].hCalls = runs[r].hCalls + 1
                  /\ runs'[r].hCalls = runs[r].retryCount + 1
          /\ runs[r].phase = "backoff"
               => runs'[r].phase \in {"backoff", "transport"} ]_vars

\* A run with exponential backoff waits before its third retry, and a run
\* with linear backoff has been rejected by the failure of its last attempt.
C22_Witness ==
  /\ \E r \in DOMAIN runs :
       /\ runs[r].phase = "backoff"
       /\ runs[r].config.retry[1].backoff = "exponential"
       /\ runs[r].retryCount = 3
       /\ runs[r].hWait = 4 * runs[r].config.retry[1].delay
       /\ runs[r].hWait > 0
  /\ \E r \in DOMAIN runs :
       /\ runs[r].phase = "rejected"
       /\ runs[r].config.retry[1].backoff = "linear"
       /\ runs[r].hCalls = 3
       /\ runs[r].hWait = 2 * runs[r].config.retry[1].delay

\* C23: an attempt is aborted only when the timeout has passed since that
\* attempt started; the abort counts as one failed attempt: while retries
\* remain the run goes on to the wait before the next retry and its callers
\* keep waiting, and only the abort of the last attempt rejects the run.
C23_AbortIsOneFailedAttempt ==
  [][ \A r \in DOMAIN runs \cap DOMAIN runs' :
        /\ (/\ runs[r].phase = "transport"
            /\ runs'[r].phase \in {"backoff", "rejected"}
            /\ runs'[r].hFailure = "AbortError"
            /\ runs[r].config.retry # <<>>)
             => /\ now >= runs[r].timer
                /\ runs'[r].hCalls = runs[r].hCalls
                /\ IF runs[r].retryCount < runs[r].config.retry[1].attempts
                   THEN /\ runs'[r].phase = "backoff"
                        /\ runs'[r].retryCount = runs[r].retryCount + 1
                        /\ \A t \in DOMAIN tasks' :
                             tasks'[t].src = r => ~Ready(t)'
                   ELSE /\ runs'[r].phase = "rejected"
                        /\ runs'[r].error = "AbortError"
        /\ (runs[r].phase = "backoff" /\ runs'[r].phase = "transport")
             => runs'[r].timer = TimerAt(runs[r].config.timeout) ]_vars

\* The second attempt of a run is out after the first was aborted, and the
\* timeout has not passed since the second attempt started.
C23_Witness ==
  \E r \in DOMAIN runs :
    /\ runs[r].phase = "transport"
    /\ runs[r].hCalls = 2
    /\ runs[r].hFailure = "AbortError"
    /\ now < runs[r].timer
    /\ \E t \in DOMAIN tasks : tasks[t].src = r

\* The key has a QueryState that is not stale and was updated less than
\* dedupeTime ago.
WithinDedupeWindow(queryKey, config) ==
  /\ queryKey \in DOMAIN queryCache
  /\ ~queryCache[queryKey].isStale
  /\ now - queryCache[queryKey].lastUpdated < config.dedupeTime

\* C24: an enabled query() returns in the step of its call exactly when the
\* key has a QueryState that is not stale and was updated less than
\* dedupeTime ago; it then returns that state, starts no run, makes no
\* transport call, notifies no listener, and leaves queryCache, with
\* loading, refetchCount and lastUpdated, as it was.
C24_DedupedQueryChangesNothing ==
  [][ /\ (/\ issued' = issued + 1
          /\ returned' # <<>>
          /\ returned'[1].kind = "query"
          /\ returned'[1].config.enabled)
           => /\ WithinDedupeWindow(
                   QueryKey(returned'[1].endpoint, returned'[1].data),
                   returned'[1].config)
              /\ returned'[1].outcome = "resolved"
              /\ returned'[1].value =
                   <<queryCache[QueryKey(returned'[1].endpoint, returned'[1].data)]>>
              /\ returned'[1].hCalls = 0
              /\ returned'[1].notified = <<>>
              /\ UNCHANGED <<queryCache, runs, pendingRequests, cache, served,
                             requestStates, tasks>>
      /\ \A t \in DOMAIN tasks' \ DOMAIN tasks :
           tasks'[t].kind = "query"
             => ~WithinDedupeWindow(QueryKey(tasks'[t].endpoint, tasks'[t].data),
                                    tasks'[t].config) ]_vars

\* A query() has returned, in the step of its call, the QueryState an
\* earlier query() for the key completed.
C24_Witness ==
  /\ returned # <<>>
  /\ returned[1].kind = "query"
  /\ returned[1].config.enabled
  /\ returned[1].notified = <<>>
  /\ returned[1].value # <<>>
  /\ returned[1].value[1].refetchCount = 1
  /\ ~returned[1].value[1].loading
  /\ queryCache[QueryKey(returned[1].endpoint, returned[1].data)]
       = returned[1].value[1]

\* C25: invalidateQuery(P) selects keys by their endpoint segment only: when
\* it selects a key, the QueryState of every key with the same endpoint,
\* whatever its parameters, is stale afterwards.
C25_InvalidationIgnoresParameters ==
  [][ \A k \in hInvalidated' \ hInvalidated :
        \A other \in DOMAIN queryCache' :
          EndpointOf(other) = EndpointOf(k) => queryCache'[other].isStale ]_vars

\* C26: when the request of a query() fails, the step in which the query()
\* resumes leaves the QueryState of the key with loading = false, the error
\* of the failure and isStale = true, and with the data, lastUpdated and
\* refetchCount it had; onRequestError has been notified, and the caller's
\* promise is rejected with the same error.
C26_FailedQueryRecordsError ==
  [][ (/\ returned' # <<>>
       /\ returned'[1].kind = "query"
       /\ returned'[1].outcome = "rejected")
        => LET k == QueryKey(returned'[1].endpoint, returned'[1].data)
               before == IF k \in DOMAIN queryCache THEN queryCache[k]
                         ELSE InitialQueryState
           IN /\ k \in DOMAIN queryCache'
              /\ ~queryCache'[k].loading
              /\ queryCache'[k].isStale
              /\ queryCache'[k].error = returned'[1].error
              /\ returned'[1].error # "null"
              /\ (/\ returned'[1].src # 0
                  /\ runs[returned'[1].src].phase = "rejected")
                   => returned'[1].error = runs[returned'[1].src].error
              /\ queryCache'[k].data = before.data
              /\ queryCache'[k].lastUpdated = before.lastUpdated
              /\ queryCache'[k].refetchCount = before.refetchCount
              /\ Notified(returned'[1], "onRequestError")
              /\ ~Notified(returned'[1], "onRequestSuccess")
              /\ \A other \in DOMAIN queryCache' \ {k} :
                   other \in DOMAIN queryCache
                     /\ queryCache'[other] = queryCache[other] ]_vars

\* A query() has been rejected for a key an earlier query() had completed
\* successfully: the QueryState keeps the earlier data and is stale.
C26_Witness ==
  /\ returned # <<>>
  /\ returned[1].kind = "query"
  /\ returned[1].outcome = "rejected"
  /\ returned[1].error \in TransportErrors
  /\ LET k == QueryKey(returned[1].endpoint, returned[1].data)
     IN /\ queryCache[k].refetchCount = 1
        /\ queryCache[k].data # 0
        /\ queryCache[k].lastUpdated < now
        /\ queryCache[k].isStale
        /\ queryCache[k].error = returned[1].error

\* C27: the step in which a query() resumes from a successful request
\* leaves the QueryState of the key with isStale = false, error = null and
\* loading = false, and with a refetchCount one greater than it was just
\* before the step.
C27_CompletionAddsOneToRefetchCount ==
  [][ (/\ returned' # <<>>
       /\ returned'[1].kind = "query"
       /\ returned'[1].outcome = "resolved"
       /\ returned'[1].notified # <<>>)
        => LET k == QueryKey(returned'[1].endpoint, returned'[1].data)
           IN /\ ~queryCache'[k].isStale
              /\ queryCache'[k].error = "null"
              /\ ~queryCache'[k].loading
              /\ k \in DOMAIN queryCache
                   => queryCache'[k].refetchCount = queryCache[k].refetchCount + 1 ]_vars

\* C29: when invalidateQuery() has marked the key of a query() after the
\* query() was called and before its request completed, the key is stale
\* after the query() has completed.
C29_InvalidationInFlightIsKept ==
  [][ (/\ returned' # <<>>
       /\ returned'[1].kind = "query"
       /\ returned'[1].outcome = "resolved"
       /\ returned'[1].src # 0
       /\ QueryKey(returned'[1].endpoint, returned'[1].data) \in hInvalidated)
        => queryCache'[QueryKey(returned'[1].endpoint, returned'[1].data)].isStale
    ]_vars

\* C30: the run a mutate() has started makes a single transport attempt.
C30_MutateMakesOneAttempt ==
  \A t \in DOMAIN tasks :
    (tasks[t].kind = "mutate" /\ tasks[t].hOwner)
      => runs[tasks[t].src].hCalls = 1

\* C28: a refetch-interval timer is set only by the step in which a query()
\* with a refetchInterval resumes from a successful request, for the key of
\* that query() and the time the interval ends, and every such step sets
\* it.  The step in which a timer fires happens no earlier than that time,
\* writes isStale = true into the QueryState updateQueryState finds for the
\* key, or starts from, and changes no other field, no other QueryState,
\* and nothing of the runs, the transport, the caches or the activations.
C28_RefetchTimerOnlyMarksStale ==
  [][ /\ \A timer \in timers' \ timers :
           /\ returned' # <<>>
           /\ returned'[1].kind = "query"
           /\ returned'[1].outcome = "resolved"
           /\ returned'[1].notified # <<>>
           /\ RefetchIntervalOrZero(returned'[1].config) # 0
           /\ timer.key = QueryKey(returned'[1].endpoint, returned'[1].data)
           /\ timer.at = TimerAt(returned'[1].config.refetchInterval)
           /\ timers' = timers \cup {timer}
      /\ (/\ returned' # <<>>
          /\ returned'[1].kind = "query"
          /\ returned'[1].outcome = "resolved"
          /\ returned'[1].notified # <<>>
          /\ RefetchIntervalOrZero(returned'[1].config) # 0)
           => \E timer \in timers' :
                /\ timer.key = QueryKey(returned'[1].endpoint, returned'[1].data)
                /\ timer.at = TimerAt(returned'[1].config.refetchInterval)
      /\ \A timer \in timers \ timers' :
           /\ now >= timer.at
           /\ timers' = timers \ {timer}
           /\ timer.key \in DOMAIN queryCache'
           /\ queryCache'[timer.key] =
                [(IF timer.key \in DOMAIN queryCache THEN queryCache[timer.key]
                  ELSE InitialQueryState) EXCEPT !.isStale = TRUE]
           /\ \A k \in DOMAIN queryCache' \ {timer.key} :
                k \in DOMAIN queryCache /\ queryCache'[k] = queryCache[k]
           /\ DOMAIN queryCache \subseteq DOMAIN queryCache'
           /\ UNCHANGED <<runs, pendingRequests, cache, served, requestStates,
                          tasks, issued, now>> ]_vars

\* The timer of a successful query() has fired: the QueryState of the key
\* keeps the data of the query() and is stale, with no error and without an
\* invalidateQuery(), and no activation or run is left.
C28_Witness ==
  /\ timers = {}
  /\ tasks = <<>>
  /\ \A r \in DOMAIN runs : runs[r].phase \in {"resolved", "rejected"}
  /\ hInvalidated = {}
  /\ \E k \in DOMAIN queryCache :
       /\ queryCache[k].isStale
       /\ queryCache[k].error = "null"
       /\ queryCache[k].refetchCount = 1
       /\ queryCache[k].data # 0
       /\ now >= queryCache[k].lastUpdated + 1000

\* C21: a get(key) called when the Storage holds an expiry for the key that
\* has passed returns undefined, and the Storage holds neither the record
\* nor its expiry afterwards.
C21_ExpiredEntryIsAMiss ==
  (store.returned # <<>> /\ store.returned[1].hExpired)
    => /\ store.returned[1].value = <<>>
       /\ store.returned[1].key \notin DOMAIN store.storage
       /\ ExpiryName(store.returned[1].key) \notin DOMAIN store.storage

\* The activation is inside request(), between its await of fetch() and the
\* settling of the promise it awaits.
AwaitsTransport(t) ==
  /\ tasks[t].kind # "fetch"
  /\ tasks[t].thrown = "null"
  /\ ~Ready(t)

\* C31: a request() that has returned has called onRequestStart, then one of
\* onRequestSuccess and onRequestError, then onRequestComplete, each once
\* and in that order; and while a request() waits for its response the
\* loading flag of its endpoint is true.
C31_ListenerOrderAndLoading ==
  /\ (returned # <<>> /\ returned[1].notified # <<>>)
       => \/ returned[1].notified =
               <<"onRequestStart", "onRequestSuccess", "onRequestComplete">>
          \/ returned[1].notified =
               <<"onRequestStart", "onRequestError", "onRequestComplete">>
  /\ \A t \in DOMAIN tasks :
       AwaitsTransport(t) => requestStates[tasks[t].endpoint].loading

\* C40: the loading flag of an endpoint is true whenever a request() for the
\* endpoint is still waiting for its response, whatever data the requests
\* carry.
C40_LoadingWhileAnyRequestInFlight ==
  \A endpoint \in EndpointNames :
    (\E t \in DOMAIN tasks : tasks[t].endpoint = endpoint /\ AwaitsTransport(t))
      => /\ endpoint \in DOMAIN requestStates
         /\ requestStates[endpoint].loading

\* A step of mutate(): its call, or its return.
MutateStep ==
  \/ \E t \in DOMAIN tasks' \ DOMAIN tasks : tasks'[t].kind = "mutate"
  \/ returned' # <<>> /\ returned'[1].kind = "mutate"

\* C32: a step of mutate() (the optimistic step, the success step, the
\* rollback step) adds no key to queryCache and removes none, and changes
\* no field of a QueryState other than isStale.
C32_MutateChangesOnlyIsStale ==
  [][ MutateStep
        => /\ DOMAIN queryCache' = DOMAIN queryCache
           /\ \A k \in DOMAIN queryCache :
                /\ queryCache'[k].data = queryCache[k].data
                /\ queryCache'[k].loading = queryCache[k].loading
                /\ queryCache'[k].error = queryCache[k].error
                /\ queryCache'[k].lastUpdated = queryCache[k].lastUpdated
                /\ queryCache'[k].refetchCount = queryCache[k].refetchCount
                /\ queryCache'[k].metadata = queryCache[k].metadata ]_vars

\* A mutate() with optimisticUpdate has resolved, and a QueryState it has
\* marked still holds the data and the count of the query() that filled it.
C32_Witness ==
  /\ returned # <<>>
  /\ returned[1].kind = "mutate"
  /\ returned[1].outcome = "resolved"
  /\ returned[1].config.optimisticUpdate
  /\ \E k \in DOMAIN queryCache :
       /\ MatchesAny(k, returned[1].config.invalidateQueries)
       /\ queryCache[k].isStale
       /\ queryCache[k].data # 0
       /\ queryCache[k].refetchCount = 1
       /\ queryCache[k].lastUpdated = now

\* C33: a refetch-interval timer set by an earlier successful query() does
\* not, when it fires on time, mark stale the fresh result a later query() with a
\* refetchInterval has brought before, as long as the timer set when that
\* result arrived is not yet due.
C33_EarlierTimerSparesNewerResult ==
  [][ \A timer \in timers \ timers' :
        (/\ timer.at = now
         /\ timer.key \in DOMAIN queryCache
         /\ ~queryCache[timer.key].isStale
         /\ queryCache'[timer.key].isStale
         /\ timer.hSet < queryCache[timer.key].lastUpdated
         /\ queryCache[timer.key].lastUpdated < now)
          => ~\E own \in timers :
                /\ own.key = timer.key
                /\ own.hSet = queryCache[timer.key].lastUpdated
                /\ own.at > now ]_vars

\* C34: only the call of a query() for a key adds the key to queryCache.  A
\* query() in flight and a pending timer belong to keys that had an entry
\* when they started, so a step of theirs that adds the key follows a
\* clearQueryCache() that no query() for the key has followed.
C34_ClearedKeyReturnsOnlyByNewQuery ==
  [][ \A k \in DOMAIN queryCache' \ DOMAIN queryCache :
        \E t \in DOMAIN tasks' \ DOMAIN tasks :
          /\ tasks'[t].kind = "query"
          /\ QueryKey(tasks'[t].endpoint, tasks'[t].data) = k ]_vars

\* The data a caller of query() or mutate() has received.
ReceivedData(activation) ==
  IF activation.kind = "query" THEN activation.value[1].data ELSE activation.value[1]

\* C35: a caller of an endpoint with a response transform receives the
\* transform of the body the transport answered with, applied once, whether
\* the caller started the transport call, joined it, or was served from the
\* cache.
C35_TransformAppliedOnce ==
  [][ \A t \in DOMAIN tasks \ DOMAIN tasks' :
        (/\ tasks[t].kind # "fetch"
         /\ EndpointConfig(tasks[t].endpoint).transform # <<>>
         /\ returned'[1].outcome = "resolved")
          => ReceivedData(returned'[1]) =
               Transform(EndpointConfig(tasks[t].endpoint).transform[1].response,
                         IF tasks[t].src = 0 THEN tasks[t].hit.data
                         ELSE runs[tasks[t].src].hRaw) ]_vars

\* C36: when the run a caller awaited had no retry block and was rejected,
\* the run has called the transport once, the caller receives the
\* failure of that call, and the run has called notifyFetchError once.
C36_NoRetryBlockFailsWithTransportError ==
  (/\ returned # <<>>
   /\ returned[1].src \in DOMAIN runs
   /\ runs[returned[1].src].phase = "rejected"
   /\ runs[returned[1].src].config.retry = <<>>)
    => /\ returned[1].hCalls = 1
       /\ returned[1].error = runs[returned[1].src].hFailure
       /\ runs[returned[1].src].hFetchErrors = 1

\* C37: when no request is in flight and the fetch cache holds, for the key
\* of a new request(), a response the endpoint's response validator has
\* rejected, the request() starts a transport call of its own.
C37_RejectedResponseNotServedAgain ==
  [][ \A t \in DOMAIN tasks' \ DOMAIN tasks :
        (/\ tasks = <<>>
         /\ tasks'[t].kind # "fetch"
         /\ tasks'[t].thrown = "null"
         /\ ApiCacheKey(tasks'[t].endpoint, tasks'[t].data) \in DOMAIN cache
         /\ ~ResponseValid(tasks'[t].endpoint,
                           cache[ApiCacheKey(tasks'[t].endpoint, tasks'[t].data)].data))
          => tasks'[t].hOwner ]_vars

\* C38: a function pushed by prefetch() is called at most once, and one
\* that leaves the queue when flushQueue() resets it has been called.
C38_QueuedRequestRunsExactlyOnce ==
  [][ /\ \A id \in DOMAIN prefetch.hStarted' : prefetch.hStarted'[id] <= 1
      /\ \A i \in DOMAIN prefetch.queue :
           (\A j \in DOMAIN prefetch.queue' : prefetch.queue'[j] # prefetch.queue[i])
             => prefetch.hStarted[prefetch.queue[i].id] >= 1 ]_vars

\* A query() for the key has been called and has not returned.
QueryInFlight(k) ==
  \E t \in DOMAIN tasks :
    tasks[t].kind = "query" /\ QueryKey(tasks[t].endpoint, tasks[t].data) = k

\* C39: every query() that has been called returns in the end, and a
\* QueryState whose key no query() in flight has shows loading = false.
C39_QueriesSettleAndLoadingClears ==
  /\ [](\A k \in DOMAIN queryCache : ~QueryInFlight(k) => ~queryCache[k].loading)
  /\ \A t \in 1..MaxIssued : (t \in DOMAIN tasks) ~> (t \notin DOMAIN tasks)

\* A query() has been rejected after its run had retried and called the
\* transport twice; no activation is left and no QueryState is loading.
C39_Witness ==
  /\ returned # <<>>
  /\ returned[1].kind = "query"
  /\ returned[1].outcome = "rejected"
  /\ returned[1].hCalls = 2
  /\ tasks = <<>>
  /\ \A k \in DOMAIN queryCache : ~queryCache[k].loading

====
